---- MODULE Spec2Model ----
(***************************************************************************)
(* eSIM Plus management front end (React) with its API client, the thin    *)
(* REST backend it talks to and the PowerShell deployment script the       *)
(* backend runs.  One browser tab is modelled in full; a second session    *)
(* of the same origin shares localStorage and the backend with it.         *)
(***************************************************************************)
EXTENDS Integers, Sequences, FiniteSets, TLC

\* ------------------------------------------------------------------ bounds
\* device configurations counted per profile in the device-management backend
MaxConfigs == 2
\* the last tick of the clock
MaxTime == 3

\* --------------------------------------------------------------- universes
Tenants == {"T1", "T2"}
\* "guest" stands for any role string that is not a key of roleHierarchy
Roles == {"admin", "operator", "viewer", "guest"}
\* P1 and P2 exist from the start; P3 is the id of a profile created later
Profiles == {"P1", "P2", "P3"}
Statuses == {"created", "deployed", "active", "inactive", "error", "migrating"}
\* device ids: "" is the empty input, "bad" fails the 8-64 character pattern
DeviceIds == {"", "bad", "device-0001", "device-0002"}
\* an activation code in the LPA format
ValidCode == "LPA:1$smdp.atom.com.mm$ACT-0001"
\* display names: "" is the empty input
StoredNames == {"n1", "n2"}
Names == {""} \cup StoredNames
Views == {"dashboard", "create", "list", "update", "deploy", "logs", "qr-codes",
          "migration", "compliance", "tenant-management", "login"}

NoUser == [role |-> "null", tenantId |-> "null"]
Users == [role : Roles, tenantId : {"T1"}] \cup [role : {"admin", "operator"}, tenantId : {"T2"}]
NoProfile == [id |-> "null", tenantId |-> "null", displayName |-> "", description |-> "",
              activationCode |-> "", smdpServerUrl |-> "", provider |-> "",
              status |-> "null", deviceId |-> ""]
\* the value of a key that an object does not have
Absent == "undefined"

VARIABLES
  storedUser,       \* localStorage 'eSIM_current_user' (shared by every tab of the origin)
  authToken,        \* localStorage 'eSIM_auth_token' is present
  isAuthenticated,  \* App state
  renderUser,       \* the stored user that the last render of App read
  currentView,      \* App state
  selectedProfile,  \* App state: the profile object handed to handleViewChange
  listProfiles,     \* ListProfiles state: loading, profiles, selectedProfiles
  deployProfile,    \* DeployProfile state: deploymentData, loading, deploymentResult
  deviceMigration,  \* DeviceMigration state: migrationData, isLoading
  updateProfile,    \* UpdateProfile state: formData, originalData, errors, loading
  createProfile,    \* CreateProfile state: formData, errors, loading
  profileLogs,      \* ProfileLogs state: loading, currentPage, totalLogs
  qrCodeManager,    \* QRCodeManager state: isLoading, error, qrData
  timers,           \* the forms whose setTimeout callback has not run yet
  now,              \* the clock of the browser
  site,             \* the installation: the API client of the bundle, the rows of the backend
  net,              \* the state-changing request of this tab that is in flight
  store,            \* backend: the Profile document of every profile id
  configs,          \* device-management backend: eSIM configurations per profile
  run,              \* what the last run of the deployment script did and wrote
  validation,       \* the last run of the provider script: its parameters and what it did
  sentReq,          \* the requests handed to axios by the step just taken
  toast             \* the toast message raised by the step just taken

appVars == <<storedUser, authToken, isAuthenticated, renderUser, currentView, selectedProfile>>
uiVars == <<listProfiles, deployProfile, deviceMigration, updateProfile, createProfile,
           profileLogs, qrCodeManager>>
backendVars == <<store, configs, run, validation>>
vars == <<storedUser, authToken, isAuthenticated, renderUser, currentView, selectedProfile,
          listProfiles, deployProfile, deviceMigration, updateProfile, createProfile,
          profileLogs, qrCodeManager, timers, now, site,
          net, store, configs, run, validation, sentReq, toast>>

\* ------------------------------------------------------------------ strings
RECURSIVE Repeat(_, _)
\* the string of n copies of the character c
Repeat(c, n) ==
  IF n = 0 THEN ""
  ELSE IF n % 2 = 0 THEN LET h == Repeat(c, n \div 2) IN h \o h
  ELSE c \o Repeat(c, n - 1)

\* the character at position i of string
CharAt(string, i) == SubSeq(string, i, i)

RECURSIVE trim(_)
\* String.prototype.trim, for strings whose white space is the space character
trim(string) ==
  IF string = "" THEN ""
  ELSE IF CharAt(string, 1) = " " THEN trim(SubSeq(string, 2, Len(string)))
  ELSE IF CharAt(string, Len(string)) = " " THEN trim(SubSeq(string, 1, Len(string) - 1))
  ELSE string

Letters ==
  {"a", "b", "c", "d", "e", "f", "g", "h", "i", "j", "k", "l", "m", "n", "o", "p", "q",
   "r", "s", "t", "u", "v", "w", "x", "y", "z"}
SchemeChars == Letters \cup {"0", "1", "2", "3", "4", "5", "6", "7", "8", "9", "+", "-", "."}
\* the schemes whose URLs need a host
SpecialSchemes == {"http", "https", "ftp", "ws", "wss"}

\* the positions of the first colon of string, as a set of at most one position
FirstColon(string) ==
  {i \in 1..Len(string) :
     CharAt(string, i) = ":" /\ \A j \in 1..(i - 1) : CharAt(string, j) # ":"}

RECURSIVE afterSlashes(_)
afterSlashes(string) ==
  IF string # "" /\ CharAt(string, 1) \in {"/", "\\"}
    THEN afterSlashes(SubSeq(string, 2, Len(string)))
    ELSE string

\* new URL(string) does not throw: after the surrounding white space is
\* removed the string starts with a scheme and a colon, and behind the scheme
\* of a special URL stands a host.  Inputs are in lower case
isValidUrl(string) ==
  LET input == trim(string)
  IN \E i \in FirstColon(input) :
       /\ i > 1
       /\ CharAt(input, 1) \in Letters
       /\ \A j \in 2..(i - 1) : CharAt(input, j) \in SchemeChars
       /\ SubSeq(input, 1, i - 1) \in SpecialSchemes
            => afterSlashes(SubSeq(input, i + 1, Len(input))) # ""

\* ---------------------------------------------------------- api.js: authAPI
getCurrentUser == storedUser

\* roleHierarchy[role] || 0
userLevelOf(role) ==
  CASE role = "admin" -> 3
    [] role = "operator" -> 2
    [] role = "viewer" -> 1
    [] OTHER -> 0

\* roleHierarchy[requiredRole] || 0: a required role that is unknown asks nothing
requiredLevelOfFallbackZero(requiredRole) ==
  CASE requiredRole = "admin" -> 3
    [] requiredRole = "operator" -> 2
    [] requiredRole = "viewer" -> 1
    [] OTHER -> 0

\* roleHierarchy[requiredRole] || 999
requiredLevelOf(requiredRole) ==
  CASE requiredRole = "admin" -> 3
    [] requiredRole = "operator" -> 2
    [] requiredRole = "viewer" -> 1
    [] OTHER -> 999

\* a check that only asks for a stored user
hasPermissionOfAnyUser(user, requiredRole) == user # NoUser

hasPermissionOf(user, requiredRole) ==
  IF user = NoUser THEN FALSE
  ELSE userLevelOf(user.role) >= requiredLevelOf(requiredRole)

hasPermission(requiredRole) == hasPermissionOf(getCurrentUser, requiredRole)

authIsAuthenticated == authToken /\ storedUser # NoUser

\* ------------------------------------------------------------------ App.jsx
\* restrictedViews[view]; "" when the view has no entry
restrictedViews(view) ==
  CASE view \in {"tenant-management", "compliance"} -> "admin"
    [] view \in {"create", "deploy", "migration"} -> "operator"
    [] OTHER -> ""

\* the switch of renderCurrentView: the component of the view for the user
renderOfView(auth, view, user) ==
  CASE view = "create" ->
         IF hasPermissionOf(user, "operator") THEN "CreateProfile" ELSE "Dashboard"
    [] view = "list" -> "ListProfiles"
    [] view = "update" ->
         IF hasPermissionOf(user, "operator") THEN "UpdateProfile" ELSE "Dashboard"
    [] view = "deploy" ->
         IF hasPermissionOf(user, "operator") THEN "DeployProfile" ELSE "Dashboard"
    [] view = "logs" -> "ProfileLogs"
    [] view = "qr-codes" -> "QRCodeManager"
    [] view = "migration" ->
         IF hasPermissionOf(user, "operator") THEN "DeviceMigration" ELSE "Dashboard"
    [] view = "compliance" ->
         IF hasPermissionOf(user, "admin") THEN "ComplianceDashboard" ELSE "Dashboard"
    [] view = "tenant-management" ->
         IF hasPermissionOf(user, "admin") THEN "TenantManagement" ELSE "Dashboard"
    [] OTHER -> "Dashboard"

renderOf(auth, view, user) ==
  IF ~auth THEN "LoginForm" ELSE renderOfView(auth, view, user)

\* what App shows: the result of its last render
renderCurrentView == renderOf(isAuthenticated, currentView, renderUser)


\* the tenant that profile id p belongs to
TenantOf(p) == store[p].tenantId

\* the keys of the form data of the create and the update form
FormKeys == {"displayName", "description", "activationCode", "smdpServerUrl", "provider",
             "status"}

\* the profile object a response carries for profile id p
Snapshot(p) ==
  [k \in FormKeys \cup {"id", "tenantId", "deviceId"} |->
     IF k = "id" THEN p ELSE store[p][k]]

\* request interceptor: X-Tenant-ID is set when a user with a tenantId is stored
tenantHeaderOf(user) == IF user # NoUser THEN user.tenantId ELSE Absent

\* a request body without a key
EmptyBody == [k \in FormKeys \cup {"tenantId"} |-> Absent]

Request(op, profileId, viewStatus, fields, source, target) ==
  [op |-> op, profileId |-> profileId, role |-> storedUser.role,
   tenantHeader |-> tenantHeaderOf(storedUser), viewStatus |-> viewStatus,
   fields |-> fields, body |-> EmptyBody,
   sourceDeviceId |-> source, targetDeviceId |-> target, skip |-> -1, limit |-> -1]

\* the two files of the repository that export eSIMAPI
Clients == {"services/api.js", "part_008"}

\* useState(10) of ListProfiles
itemsPerPage == 10

\* the query of eSIMAPI.getProfiles(skip, limit), called with two numbers.
\* services/api.js takes them as (skip = 0, limit = 100).  part_008 takes
\* (params = {}) and destructures skip and limit from params: params is the
\* number, it has neither property, and both take their defaults
getProfiles(client, skip, limit) ==
  IF client = "services/api.js"
    THEN [skip |-> skip, limit |-> limit]
    ELSE [skip |-> 0, limit |-> 100]

\* loadProfiles: skip = (currentPage - 1) * itemsPerPage
ListQuery(currentPage) ==
  getProfiles(site.client, (currentPage - 1) * itemsPerPage, itemsPerPage)

ListRequest(user, currentPage) ==
  [op |-> "list", profileId |-> "null", role |-> user.role,
   tenantHeader |-> tenantHeaderOf(user), viewStatus |-> "null",
   fields |-> {}, body |-> EmptyBody, sourceDeviceId |-> "", targetDeviceId |-> "",
   skip |-> ListQuery(currentPage).skip, limit |-> ListQuery(currentPage).limit]

\* ----------------------------------------------- component state at mount
NoForm == [displayName |-> "", description |-> "", activationCode |-> "",
           smdpServerUrl |-> "", provider |-> "", status |-> "created"]
EmptyObject == [k \in FormKeys |-> Absent]
NoNet == [op |-> "none", profileId |-> "null", phase |-> "none", form |-> NoForm,
          data |-> EmptyObject, tenantId |-> Absent,
          sourceDeviceId |-> "", targetDeviceId |-> ""]

ListIdle ==
  [loading |-> FALSE, tenantHeader |-> Absent, skip |-> -1, limit |-> -1,
   profiles |-> [p \in Profiles |-> NoProfile], hiddenRows |-> 0, selectedProfiles |-> {},
   currentPage |-> 1, totalProfiles |-> 0, filterStatus |-> ""]

\* useState defaults, then the effect on [currentPage] calls loadProfiles()
ListMounted(user) ==
  [ListIdle EXCEPT !.loading = TRUE, !.tenantHeader = tenantHeaderOf(user),
                   !.skip = ListQuery(1).skip, !.limit = ListQuery(1).limit]

DeployIdle == [targetDeviceId |-> "", loading |-> FALSE, deploymentResult |-> "null"]

MigrationIdle == [sourceDeviceId |-> "", targetDeviceId |-> "", isLoading |-> FALSE]

\* effect on [profile]: sourceDeviceId := profile.deviceId when it is set
MigrationProfileEffect(m, profile) ==
  IF profile # NoProfile /\ profile.deviceId # ""
    THEN [m EXCEPT !.sourceDeviceId = profile.deviceId]
    ELSE m

UpdateIdle == [formData |-> NoForm, originalData |-> EmptyObject, errors |-> {},
               loading |-> FALSE]

\* effect on [profile]: formData and originalData are loaded from the profile
UpdateProfileEffect(u, profile) ==
  IF profile # NoProfile
    THEN [u EXCEPT
            !.formData = [k \in FormKeys |-> profile[k]],
            !.originalData = [k \in FormKeys |-> profile[k]]]
    ELSE u

CreateIdle == [formData |-> NoForm, errors |-> {}, loading |-> FALSE]

\* useState(20) of ProfileLogs
logsPerPage == 20

\* the query of eSIMAPI.getProfileLogs(profile.id, skip, limit), called with a
\* string and two numbers.  services/api.js takes (profileId, skip = 0,
\* limit = 50); part_008 takes (profileId, params = {}) and destructures skip
\* and limit from the number params
getProfileLogs(client, skip, limit) ==
  IF client = "services/api.js"
    THEN [skip |-> skip, limit |-> limit]
    ELSE [skip |-> 0, limit |-> 50]

\* loadLogs: skip = (currentPage - 1) * itemsPerPage
LogsQuery(currentPage) ==
  getProfileLogs(site.client, (currentPage - 1) * logsPerPage, logsPerPage)

LogsRequest(user, profileId, currentPage) ==
  [op |-> "logs", profileId |-> profileId, role |-> user.role,
   tenantHeader |-> tenantHeaderOf(user), viewStatus |-> "null",
   fields |-> {}, body |-> EmptyBody, sourceDeviceId |-> "", targetDeviceId |-> "",
   skip |-> LogsQuery(currentPage).skip, limit |-> LogsQuery(currentPage).limit]

LogsIdle == [loading |-> FALSE, refreshing |-> FALSE, skip |-> -1, limit |-> -1,
             currentPage |-> 1, totalLogs |-> 0]

\* useState defaults, then the effect on [profile, currentPage] calls
\* loadLogs() when there is a profile
LogsMounted(profile) ==
  IF profile = NoProfile THEN [LogsIdle EXCEPT !.loading = TRUE]
  ELSE [LogsIdle EXCEPT !.loading = TRUE, !.skip = LogsQuery(1).skip,
                        !.limit = LogsQuery(1).limit]

\* qrCodeAPI.getQRCode(profileId): GET /api/qr/{profileId}
QrRequest(user, profileId) ==
  [op |-> "qr", profileId |-> profileId, role |-> user.role,
   tenantHeader |-> tenantHeaderOf(user), viewStatus |-> "null",
   fields |-> {}, body |-> EmptyBody, sourceDeviceId |-> "", targetDeviceId |-> "",
   skip |-> -1, limit |-> -1]

\* qrData of a QRCodeManager that holds no QR code
NoQr == [expiresAt |-> -1, isActive |-> FALSE]

QrIdle == [isLoading |-> FALSE, error |-> FALSE, qrData |-> NoQr]

\* useState defaults; the effect on [profile] calls fetchQRCode() when the
\* profile has an id
QrMounted == [isLoading |-> TRUE, error |-> FALSE, qrData |-> NoQr]

\* the component whose handler awaits the response to a request of kind op
AwaitedBy(op) ==
  CASE op = "deploy" -> "DeployProfile"
    [] op = "create" -> "CreateProfile"
    [] op = "migrate" -> "DeviceMigration"
    [] op = "update" -> "UpdateProfile"
    [] OTHER -> "none"

\* App renders again with the stored user user2.  React keeps a component's
\* state while the same component stays rendered and discards it when another
\* component takes its place
UiAfter(auth2, view2, sel2, user2) ==
  LET R == renderCurrentView
      R2 == renderOf(auth2, view2, user2)
  IN /\ renderUser' = user2
     /\ listProfiles' =
          IF R2 # "ListProfiles" THEN ListIdle
          ELSE IF R = R2 THEN listProfiles ELSE ListMounted(user2)
     /\ deployProfile' =
          IF R2 = "DeployProfile" /\ R = R2 THEN deployProfile ELSE DeployIdle
     /\ deviceMigration' =
          IF R2 # "DeviceMigration" THEN MigrationIdle
          ELSE IF R = R2
                 THEN IF sel2 # selectedProfile
                        THEN MigrationProfileEffect(deviceMigration, sel2)
                        ELSE deviceMigration
                 ELSE MigrationProfileEffect(MigrationIdle, sel2)
     /\ updateProfile' =
          IF R2 # "UpdateProfile" THEN UpdateIdle
          ELSE IF R = R2
                 THEN IF sel2 # selectedProfile
                        THEN UpdateProfileEffect(updateProfile, sel2)
                        ELSE updateProfile
                 ELSE UpdateProfileEffect(UpdateIdle, sel2)
     /\ createProfile' =
          IF R2 = "CreateProfile" /\ R = R2 THEN createProfile ELSE CreateIdle
     /\ profileLogs' =
          IF R2 # "ProfileLogs" THEN LogsIdle
          ELSE IF R = R2
                 THEN IF sel2 # selectedProfile /\ sel2 # NoProfile
                        THEN [profileLogs EXCEPT
                                !.loading = TRUE,
                                !.skip = LogsQuery(profileLogs.currentPage).skip,
                                !.limit = LogsQuery(profileLogs.currentPage).limit]
                        ELSE profileLogs
                 ELSE LogsMounted(sel2)
     /\ qrCodeManager' =
          IF R2 # "QRCodeManager" THEN QrIdle
          ELSE IF R = R2
                 THEN IF sel2 # selectedProfile /\ sel2 # NoProfile
                        THEN [qrCodeManager EXCEPT !.isLoading = TRUE, !.error = FALSE]
                        ELSE qrCodeManager
                 ELSE QrMounted
     /\ sentReq' =
          CASE R2 = "ListProfiles" /\ R # R2 -> {ListRequest(user2, 1)}
            [] R2 = "ProfileLogs" /\ sel2 # NoProfile /\ (R # R2 \/ sel2 # selectedProfile) ->
                 {LogsRequest(user2, sel2.id,
                              IF R = R2 THEN profileLogs.currentPage ELSE 1)}
            [] R2 = "QRCodeManager" /\ sel2 # NoProfile
                 /\ (R # R2 \/ sel2 # selectedProfile) -> {QrRequest(user2, sel2.id)}
            [] OTHER -> {}

\* the response to a request of a discarded component is dropped.  A step of
\* the backend and a step that discards the component do not read each other's
\* state, so only the order backend first is modelled
NetAfter(auth2, view2, user2) ==
  IF net # NoNet /\ renderOf(auth2, view2, user2) # AwaitedBy(net.op)
    THEN net.phase # "sent" /\ net' = NoNet
    ELSE net' = net

\* the record of a run of the provider script that has not happened
NoValidation ==
  [Provider |-> "", ActivationCode |-> "", DeviceEID |-> "", thrown |-> FALSE,
   requests |-> 0, exit |-> -1]

\* the record of a run of the deployment script that has not happened
NoRun ==
  [script |-> "", exit |-> -1, output |-> {}, prerequisites |-> FALSE, created |-> 0,
   assigned |-> FALSE, tenantGiven |-> "", tenantConnected |-> "", tenantReported |-> ""]

\* the installation every specification starts from unless it says otherwise:
\* the client that exports authAPI, and no rows but those of Profiles
InstalledSite == [client |-> "part_008", hidden |-> 0, logs |-> 0]

\* the document of a profile id without a profile
Deleted ==
  [exists |-> FALSE, tenantId |-> "null", displayName |-> "", description |-> "",
   activationCode |-> "", smdpServerUrl |-> "", provider |-> "", status |-> "null",
   deviceId |-> ""]

\* the document of the profiles of tenant T1 that exist from the start
Stored ==
  [exists |-> TRUE, tenantId |-> "T1", displayName |-> "n1", description |-> "",
   activationCode |-> ValidCode, smdpServerUrl |-> "https://smdp.atom.com.mm",
   provider |-> "ATOM", status |-> "created", deviceId |-> ""]

\* the state after the page of the installation installed was loaded
InitWith(installed) ==
  /\ storedUser = NoUser
  /\ authToken = FALSE
  /\ isAuthenticated = FALSE
  /\ renderUser = NoUser
  /\ currentView = "dashboard"
  /\ selectedProfile = NoProfile
  /\ listProfiles = ListIdle
  /\ deployProfile = DeployIdle
  /\ deviceMigration = MigrationIdle
  /\ updateProfile = UpdateIdle
  /\ createProfile = CreateIdle
  /\ profileLogs = LogsIdle
  /\ qrCodeManager = QrIdle
  /\ timers = {}
  /\ now = 0
  /\ site = installed
  /\ net = NoNet
  /\ store = [p \in Profiles |-> IF p \in {"P1", "P2"} THEN Stored ELSE Deleted]
  /\ configs = [p \in Profiles |-> 0]
  /\ run = NoRun
  /\ validation = NoValidation
  /\ sentReq = {}
  /\ toast = ""

Init == InitWith(InstalledSite)

\* ------------------------------------------------------- App.jsx handlers
\* LoginForm: authAPI.login succeeds, then onLoginSuccess(user)
handleLoginSuccess(user) ==
  /\ renderCurrentView = "LoginForm"
  /\ storedUser' = user
  /\ authToken' = TRUE
  /\ isAuthenticated' = TRUE
  /\ currentView' = "dashboard"
  /\ UiAfter(TRUE, "dashboard", selectedProfile, user)
  /\ NetAfter(TRUE, "dashboard", user)
  /\ toast' = "Welcome back"
  /\ UNCHANGED <<selectedProfile, store, configs, run, validation, now, site, timers>>

handleLogout ==
  /\ isAuthenticated
  /\ storedUser' = NoUser
  /\ authToken' = FALSE
  /\ isAuthenticated' = FALSE
  /\ currentView' = "login"
  /\ UiAfter(FALSE, "login", selectedProfile, NoUser)
  /\ NetAfter(FALSE, "login", NoUser)
  /\ toast' = "Logged out successfully"
  /\ UNCHANGED <<selectedProfile, store, configs, run, validation, now, site, timers>>

\* the profile objects the rendered component holds and can hand to onViewChange
ProfilesHeld ==
  {NoProfile}
    \cup (IF renderCurrentView = "ListProfiles" /\ ~listProfiles.loading
            THEN {listProfiles.profiles[p] : p \in Profiles} ELSE {})
    \cup (IF renderCurrentView \in {"UpdateProfile", "DeployProfile", "ProfileLogs",
                                    "QRCodeManager", "DeviceMigration"}
            THEN {selectedProfile} ELSE {})

\* setCurrentView and setSelectedProfile with the values App already holds do
\* not render App again
ViewChanged(view2, sel2) ==
  IF view2 = currentView /\ sel2 = selectedProfile
    THEN /\ sentReq' = {}
         /\ UNCHANGED <<renderUser, uiVars, net>>
    ELSE /\ UiAfter(isAuthenticated, view2, sel2, storedUser)
         /\ NetAfter(isAuthenticated, view2, storedUser)

\* a handler that keeps the selected profile when it is called without one
handleViewChangeKeepsProfile(view, profile) ==
  LET kept == IF profile = NoProfile THEN selectedProfile ELSE profile
  IN /\ isAuthenticated
     /\ profile \in ProfilesHeld
     /\ IF restrictedViews(view) # "" /\ ~hasPermission(restrictedViews(view))
          THEN /\ currentView' = "dashboard"
               /\ UNCHANGED selectedProfile
               /\ ViewChanged("dashboard", selectedProfile)
          ELSE /\ currentView' = view
               /\ selectedProfile' = kept
               /\ ViewChanged(view, kept)
     /\ toast' = ""
     /\ UNCHANGED <<storedUser, authToken, isAuthenticated, store, configs, run, validation,
                    now, site, timers>>

handleViewChange(view, profile) ==
  /\ isAuthenticated
  /\ profile \in ProfilesHeld
  /\ IF restrictedViews(view) # "" /\ ~hasPermission(restrictedViews(view))
       THEN /\ currentView' = "dashboard"
            /\ UNCHANGED selectedProfile
            /\ ViewChanged("dashboard", selectedProfile)
       ELSE /\ currentView' = view
            /\ selectedProfile' = profile
            /\ ViewChanged(view, profile)
  /\ toast' = ""
  /\ UNCHANGED <<storedUser, authToken, isAuthenticated, store, configs, run, validation, now, site, timers>>

\* the components whose save schedules setTimeout(() => onViewChange('list'), 1500)
FormOf(form) == IF form = "create" THEN "CreateProfile" ELSE "UpdateProfile"

\* the callback of the timer of a form runs: handleViewChange('list') of the
\* render that scheduled it, whatever App shows by now
TimerFires(form) ==
  /\ form \in timers
  /\ timers' = timers \ {form}
  /\ currentView' = "list"
  /\ selectedProfile' = NoProfile
  /\ ViewChanged("list", NoProfile)
  /\ toast' = ""
  /\ UNCHANGED <<storedUser, authToken, isAuthenticated, store, configs, run, validation,
                 now, site>>

\* App mount after a page load: checkAuth reads the session from localStorage
checkAuth ==
  /\ isAuthenticated' = authIsAuthenticated
  /\ currentView' = "dashboard"
  /\ selectedProfile' = NoProfile
  /\ UiAfter(authIsAuthenticated, "dashboard", NoProfile, storedUser)
  /\ NetAfter(authIsAuthenticated, "dashboard", storedUser)
  /\ toast' = ""
  /\ timers' = {}
  /\ UNCHANGED <<storedUser, authToken, store, configs, run, validation, now, site>>

\* response interceptor on a 401: the session is removed and the page reloads
SessionExpired ==
  /\ isAuthenticated
  /\ listProfiles.loading \/ net.phase = "sent"
  /\ storedUser' = NoUser
  /\ authToken' = FALSE
  /\ isAuthenticated' = FALSE
  /\ currentView' = "dashboard"
  /\ selectedProfile' = NoProfile
  /\ UiAfter(FALSE, "dashboard", NoProfile, NoUser)
  /\ net' = NoNet
  /\ toast' = "Session expired. Please login again."
  /\ timers' = {}
  /\ UNCHANGED <<store, configs, run, validation, now, site>>

\* another tab of the same origin logs in or out: localStorage is shared, and
\* App does not render again on a change of localStorage
StorageChangedElsewhere(user) ==
  /\ user # storedUser
  /\ storedUser' = user
  /\ authToken' = (user # NoUser)
  /\ sentReq' = {}
  /\ toast' = ""
  /\ UNCHANGED <<isAuthenticated, renderUser, currentView, selectedProfile, uiVars, net,
                 store, configs, run, validation, now, site, timers>>

\* ------------------------------------------- deployment script (PowerShell)
\* the call of the script that fails for a reason outside it: the module
\* import, the connection to Graph, the creation of the device configuration,
\* the creation of the assignment; "none" is a run in which every call works
FailPoints == {"none", "import", "authentication", "create", "assign"}

\* Write-AuditLog writes its line with Write-Output: called in a function, the
\* line is one more object of what that function returns to its caller
AuditLog(Level, Message) == "[AUDIT] " \o Level \o ": " \o Message

\* the conversion to Boolean of the objects a call returned, as -not applies
\* it: no object is false, one object converts by its value, more are true
ToBoolean(output) ==
  IF Len(output) = 0 THEN FALSE
  ELSE IF Len(output) = 1 THEN output[1] \notin {"False", "null", ""}
  ELSE TRUE

\* the conversion of the value behind return alone
LastToBoolean(output) ==
  Len(output) > 0 /\ output[Len(output)] \notin {"False", "null", ""}

StartsWith(string, prefix) ==
  Len(string) >= Len(prefix) /\ SubSeq(string, 1, Len(prefix)) = prefix

\* [System.Uri]::IsWellFormedUriString(string, Absolute): a scheme, a colon and
\* behind them //host for the schemes that have an authority.  Inputs are in
\* lower case and hold no character that needs escaping except the space
IsWellFormedUriString(string) ==
  /\ \A j \in 1..Len(string) : CharAt(string, j) # " "
  /\ \E i \in FirstColon(string) :
       /\ i > 1
       /\ CharAt(string, 1) \in Letters
       /\ \A j \in 2..(i - 1) : CharAt(string, j) \in SchemeChars
       /\ LET rest == SubSeq(string, i + 1, Len(string))
          IN /\ rest # ""
             /\ SubSeq(string, 1, i - 1) \in SpecialSchemes
                  => /\ StartsWith(rest, "//")
                     /\ Len(rest) > 2
                     /\ CharAt(rest, 3) # "/"

\* the upper-case form of the provider names the forms know
ToUpper(Provider) ==
  IF Provider = "Ooredoo" THEN "OOREDOO"
  ELSE IF Provider = "Mytel" THEN "MYTEL"
  ELSE Provider

\* the three checks of Test-DeploymentPrerequisites; -notin does not look at case
PrerequisitesMet(ActivationCode, SmdpServerUrl, Provider) ==
  /\ StartsWith(ActivationCode, "LPA:")
  /\ IsWellFormedUriString(SmdpServerUrl)
  /\ ToUpper(Provider) \in {"MPT", "ATOM", "OOREDOO", "MYTEL"}

TestDeploymentPrerequisites(ActivationCode, SmdpServerUrl, Provider) ==
  IF PrerequisitesMet(ActivationCode, SmdpServerUrl, Provider)
    THEN <<AuditLog("INFO", "Validating deployment prerequisites"),
           AuditLog("SUCCESS", "Deployment prerequisites validated successfully"), "True">>
    ELSE <<AuditLog("INFO", "Validating deployment prerequisites"),
           AuditLog("ERROR", "Deployment prerequisites validation failed"), "False">>

GetGraphAccessToken(failAt) ==
  IF failAt # "authentication"
    THEN <<AuditLog("INFO", "Authenticating with Microsoft Graph"),
           AuditLog("SUCCESS", "Microsoft Graph authentication successful"), "True">>
    ELSE <<AuditLog("INFO", "Authenticating with Microsoft Graph"),
           AuditLog("ERROR", "Microsoft Graph authentication failed"), "False">>

\* without a connection to Graph no later call to it works
NeweSIMConfigurationProfile(failAt) ==
  IF failAt \notin {"authentication", "create"}
    THEN <<AuditLog("INFO", "Creating eSIM configuration profile"),
           AuditLog("SUCCESS", "eSIM configuration profile created successfully"),
           "deviceConfiguration">>
    ELSE <<AuditLog("INFO", "Creating eSIM configuration profile"),
           AuditLog("ERROR", "Failed to create eSIM configuration profile"), "null">>

\* $configProfile.Id: the Id of the objects of the output that have one
IdOf(output) ==
  IF \E i \in 1..Len(output) : output[i] = "deviceConfiguration" THEN "graph-id" ELSE ""

SeteSIMProfileAssignment(ProfileId, DeviceId, failAt) ==
  <<AuditLog("INFO", "Assigning eSIM profile"),
    AuditLog("INFO", IF DeviceId # "" THEN "Targeting specific device"
                     ELSE "Targeting all devices in tenant")>>
  \o (IF ProfileId # "" /\ failAt \notin {"authentication", "assign"}
        THEN <<AuditLog("SUCCESS", "eSIM profile assignment created successfully"), "True">>
        ELSE <<AuditLog("ERROR", "Failed to assign eSIM profile"), "False">>)

\* $env:GRAPH_TENANT_ID of the host the backend runs the script on
GRAPH_TENANT_ID == "contoso.onmicrosoft.com"

\* the script from the import guard to its exit.  exit is the exit code,
\* output the audit lines of the main execution, prerequisites whether the
\* three checks of step 1 were met, created the number of device
\* configurations the run left behind, assigned whether one was assigned
DeployScript(profile, TargetDeviceId, failAt) ==
  IF failAt = "import"
    THEN [NoRun EXCEPT !.script = "Deploy-eSIMProfile", !.exit = 1,
                       !.tenantGiven = GRAPH_TENANT_ID]
    ELSE
      LET checked == TestDeploymentPrerequisites(profile.activationCode,
                                                 profile.smdpServerUrl, profile.provider)
          step1 == ToBoolean(checked)
          step2 == step1 /\ ToBoolean(GetGraphAccessToken(failAt))
          configProfile == NeweSIMConfigurationProfile(failAt)
          step3 == step2 /\ ToBoolean(configProfile)
          assignment == SeteSIMProfileAssignment(IdOf(configProfile), TargetDeviceId, failAt)
          step4 == step3 /\ ToBoolean(assignment)
      IN [script |-> "Deploy-eSIMProfile",
          exit |-> IF step4 THEN 0 ELSE 1,
          output |-> {AuditLog("INFO", "eSIM deployment process started"),
                      IF step4
                        THEN AuditLog("SUCCESS", "eSIM deployment completed successfully")
                        ELSE AuditLog("ERROR", "eSIM deployment failed"),
                      AuditLog("INFO", "Microsoft Graph connection closed")},
          prerequisites |-> LastToBoolean(checked),
          created |-> IF step2 /\ IdOf(configProfile) # "" THEN 1 ELSE 0,
          assigned |-> step3 /\ LastToBoolean(assignment),
          tenantGiven |-> GRAPH_TENANT_ID,
          tenantConnected |-> IF failAt # "authentication" THEN GRAPH_TENANT_ID ELSE "",
          tenantReported |-> ""]

\* ------------------------------------------------- Intune-Deployment.ps1
\* Connect-GraphTenant of Intune-Deployment.ps1 and of Deactivate-eSIM.ps1:
\* $tenantId is assigned in the function; the names of PowerShell variables
\* do not differ by case, so this is a local variable that hides the
\* parameter $TenantId of the script
ConnectGraphTenant(TenantId) == "esimplus.onmicrosoft.com"

\* the calls of Intune-Deployment.ps1 that can fail from outside
IntuneFailPoints == {"none", "authentication", "create", "assign"}

\* main execution of Intune-Deployment.ps1.  Its calls to Graph carry no
\* -ErrorAction: whether the error of a failing call ends the try block
\* (terminating) or is only written depends on the version of the Graph
\* module.  After an error that is only written the script goes on: without
\* a connection the creation fails too, and without a created configuration
\* the assignment is refused for its empty id, which ends the try block
IntuneDeployment(TenantId, failAt, terminating) ==
  LET connected == failAt # "authentication"
      caughtAt == IF ~connected /\ terminating THEN "authentication"
                  ELSE IF ~connected \/ failAt = "create" THEN
                    (IF terminating THEN "create" ELSE "assign")
                  ELSE IF failAt = "assign" /\ terminating THEN "assign"
                  ELSE "none"
      profileCreated == connected /\ failAt # "create"
  IN [script |-> "Intune-Deployment",
      exit |-> IF caughtAt = "none" THEN 0 ELSE 1,
      output |-> {},
      prerequisites |-> TRUE,
      created |-> IF profileCreated THEN 1 ELSE 0,
      assigned |-> profileCreated /\ failAt # "assign",
      tenantGiven |-> TenantId,
      tenantConnected |-> IF connected THEN ConnectGraphTenant(TenantId) ELSE "",
      tenantReported |-> TenantId]

\* an administrator runs Intune-Deployment.ps1 for a profile from the command line
RunIntuneDeployment(p, TenantId, failAt, terminating) ==
  LET result == IntuneDeployment(TenantId, failAt, terminating)
  IN /\ store[p].exists
     /\ configs[p] + result.created <= MaxConfigs
     /\ run' = result
     /\ configs' = [configs EXCEPT ![p] = @ + result.created]
     /\ sentReq' = {}
     /\ toast' = ""
     /\ UNCHANGED <<appVars, profileLogs, qrCodeManager, uiVars, net, store, validation, now, site, timers>>

\* --------------------------------------------------- Deactivate-eSIM.ps1
\* main execution of Deactivate-eSIM.ps1: a connection failure that
\* terminates is caught, exit 1; Remove-eSIMFromDevice returns Success = $false
\* for an error it caught, exit 1, and Success = $true otherwise, also when
\* the errors of its calls were only written
DeactivateScript(TenantId, failAt, terminating) ==
  LET connected == failAt # "authentication"
  IN [NoRun EXCEPT
        !.script = "Deactivate-eSIM",
        !.exit = IF failAt # "none" /\ terminating THEN 1 ELSE 0,
        !.tenantGiven = TenantId,
        !.tenantConnected = IF connected THEN ConnectGraphTenant(TenantId) ELSE "",
        !.tenantReported = ""]

\* an administrator runs Deactivate-eSIM.ps1 for a profile and its device;
\* the script removes assignments, no device configuration
RunDeactivateScript(p, TenantId, failAt, terminating) ==
  /\ store[p].exists
  /\ failAt \in {"none", "authentication", "remove"}
  /\ run' = DeactivateScript(TenantId, failAt, terminating)
  /\ sentReq' = {}
  /\ toast' = ""
  /\ UNCHANGED <<appVars, profileLogs, qrCodeManager, uiVars, net, store, configs, validation, now, site, timers>>

\* --------------------------------------------- provider script (PowerShell)
UpperLetters ==
  {"A", "B", "C", "D", "E", "F", "G", "H", "I", "J", "K", "L", "M", "N", "O", "P", "Q",
   "R", "S", "T", "U", "V", "W", "X", "Y", "Z"}
Digits == {"0", "1", "2", "3", "4", "5", "6", "7", "8", "9"}

\* the characters [A-Z0-9] stands for under -match, which does not look at case
AZ09 == UpperLetters \cup Letters \cup Digits

\* every character of string is in set
AllIn(string, set) == \A i \in 1..Len(string) : CharAt(string, i) \in set

ProviderNames == {"MPT", "ATOM", "OOREDOO", "MYTEL"}

\* $ActivationCode -match $ProviderConfigs[$Provider].ValidationPattern
MatchesValidationPattern(Provider, ActivationCode) ==
  CASE Provider = "MPT" ->
         /\ Len(ActivationCode) = 23
         /\ \A i \in 1..23 :
              IF i \in {6, 12, 18} THEN CharAt(ActivationCode, i) = "-"
              ELSE CharAt(ActivationCode, i) \in AZ09
    [] Provider = "ATOM" ->
         Len(ActivationCode) \in 32..64 /\ AllIn(ActivationCode, AZ09)
    [] Provider = "OOREDOO" ->
         /\ Len(ActivationCode) >= 6
         /\ \A i \in 1..3 :
              CharAt(ActivationCode, i) \in {CharAt("LPA", i), CharAt("lpa", i)}
         /\ SubSeq(ActivationCode, 4, 6) = ":1$"
    [] Provider = "MYTEL" ->
         Len(ActivationCode) \in 20..50 /\ AllIn(ActivationCode, AZ09 \cup {"-"})

\* Invoke-MPTValidation and the three like it: one request to the provider;
\* a request that fails is caught and returned as Success = $false
InvokeProviderRequest(httpFails) == [thrown |-> FALSE, requests |-> 1, Success |-> ~httpFails]

\* a validation that goes to the provider without the local check
InvokeProviderValidationUnchecked(Provider, ActivationCode, httpFails) ==
  InvokeProviderRequest(httpFails)

\* Invoke-ProviderValidation: throws when the code fails the local pattern,
\* else hands over to the validation of the provider
InvokeProviderValidation(Provider, ActivationCode, httpFails) ==
  IF ~MatchesValidationPattern(Provider, ActivationCode)
    THEN [thrown |-> TRUE, requests |-> 0, Success |-> FALSE]
    ELSE InvokeProviderRequest(httpFails)

\* main execution of the provider script: exit 0 for a result with Success,
\* exit 1 for one without and from catch
ProviderScript(Provider, ActivationCode, DeviceEID, httpFails) ==
  LET result == InvokeProviderValidation(Provider, ActivationCode, httpFails)
  IN [Provider |-> Provider, ActivationCode |-> ActivationCode, DeviceEID |-> DeviceEID,
      thrown |-> result.thrown, requests |-> result.requests,
      exit |-> IF ~result.thrown /\ result.Success THEN 0 ELSE 1]

\* a run of the provider script
ProviderValidation(Provider, ActivationCode, DeviceEID, httpFails) ==
  /\ Provider \in ProviderNames
  /\ ActivationCode # ""
  /\ validation' = ProviderScript(Provider, ActivationCode, DeviceEID, httpFails)
  /\ sentReq' = {}
  /\ toast' = ""
  /\ UNCHANGED <<appVars, uiVars, net, store, configs, run, now, site, timers>>

\* ------------------------------------------------------------ REST backend

\* GET /api/esim/list: the profiles of the tenant the request is scoped to
ProfileOrder == <<"P1", "P2", "P3">>

\* the profiles of the tenant that the list of the backend puts before p: the
\* rows of site.hidden, which belong to tenant T1, and the earlier ids
RowsBefore(p, tenantHeader) ==
  (IF tenantHeader = "T1" THEN site.hidden ELSE 0)
    + Cardinality({q \in Profiles :
                     /\ store[q].exists /\ TenantOf(q) = tenantHeader
                     /\ \E i, j \in DOMAIN ProfileOrder :
                          i < j /\ ProfileOrder[i] = q /\ ProfileOrder[j] = p})

\* GET /api/esim/list?skip=&limit=: the rows skip .. skip + limit - 1 of the
\* tenant's profiles and their number
ListResponse(tenantHeader, skip, limit) ==
  LET hidden == IF tenantHeader = "T1" THEN site.hidden ELSE 0
      InPage(row) == skip <= row /\ row < skip + limit
  IN [profiles |-> [p \in Profiles |->
                      IF /\ store[p].exists /\ TenantOf(p) = tenantHeader
                         /\ InPage(RowsBefore(p, tenantHeader))
                        THEN Snapshot(p) ELSE NoProfile],
      hiddenRows |-> Cardinality({row \in 0..(hidden - 1) : InPage(row)}),
      total |-> hidden + Cardinality({p \in Profiles :
                                        store[p].exists /\ TenantOf(p) = tenantHeader})]

\* POST /api/esim/deploy: looks the profile up, runs the deployment script and
\* records the outcome as the profile's status
BackendDeploy(p, targetDeviceId, failAt) ==
  LET result == DeployScript(store[p], targetDeviceId, failAt)
  IN /\ configs[p] + result.created <= MaxConfigs
     /\ run' = result
     /\ UNCHANGED <<validation, now, site, timers>>
     /\ configs' = [configs EXCEPT ![p] = @ + result.created]
     /\ store' = [store EXCEPT
                    ![p].status = IF result.exit = 0 THEN "deployed" ELSE "error",
                    ![p].deviceId = IF result.exit = 0 /\ targetDeviceId # ""
                                      THEN targetDeviceId ELSE @]

\* PUT /api/esim/update/{id}: field-level update with the fields of the body
BackendUpdate(p, data) ==
  /\ store' = [store EXCEPT
                 ![p] = [k \in DOMAIN @ |->
                           IF k \in FormKeys /\ data[k] # Absent THEN data[k] ELSE @[k]]]
  /\ UNCHANGED <<configs, run, validation, now, site, timers>>

\* POST /api/migration/initiate
BackendMigrate(p) ==
  /\ store' = [store EXCEPT ![p].status = "migrating"]
  /\ UNCHANGED <<configs, run, validation, now, site, timers>>

\* the backend handles the request of this tab that is in flight; a request
\* for a profile that does not exist is answered 404
BackendHandles(op) ==
  /\ net.phase = "sent"
  /\ net.op = op
  /\ sentReq' = {}
  /\ toast' = ""
  /\ UNCHANGED <<appVars, profileLogs, qrCodeManager, createProfile, uiVars>>

NotFound ==
  /\ ~store[net.profileId].exists
  /\ net' = [net EXCEPT !.phase = "failed"]
  /\ UNCHANGED <<store, configs, run, validation, now, site, timers>>

BackendHandleDeploy(failAt) ==
  /\ BackendHandles("deploy")
  /\ \/ NotFound
     \/ /\ store[net.profileId].exists
        /\ BackendDeploy(net.profileId, net.targetDeviceId, failAt)
        /\ net' = [net EXCEPT !.phase = IF run'.exit = 0 THEN "ok" ELSE "failed"]

BackendHandleUpdate ==
  /\ BackendHandles("update")
  /\ \/ NotFound
     \/ /\ store[net.profileId].exists
        /\ BackendUpdate(net.profileId, net.data)
        /\ net' = [net EXCEPT !.phase = "ok"]

BackendHandleMigrate ==
  /\ BackendHandles("migrate")
  /\ \/ NotFound
     \/ /\ store[net.profileId].exists
        /\ BackendMigrate(net.profileId)
        /\ net' = [net EXCEPT !.phase = "ok"]

\* POST /api/esim/create: stores the body as the document of a new profile id
BackendCreate(p, data, tenantId) ==
  /\ store' = [store EXCEPT
                 ![p] = [k \in DOMAIN @ |->
                           IF k \in FormKeys THEN data[k]
                           ELSE IF k = "tenantId" THEN tenantId
                           ELSE IF k = "exists" THEN TRUE
                           ELSE Deleted[k]]]
  /\ UNCHANGED <<configs, run, validation, now, site, timers>>

\* the request is answered with an error when the backend fails or no id is free
BackendHandleCreate(fails) ==
  /\ BackendHandles("create")
  /\ LET free == {p \in Profiles : ~store[p].exists}
     IN IF fails \/ free = {}
          THEN /\ net' = [net EXCEPT !.phase = "failed"]
               /\ UNCHANGED <<store, configs, run, validation, now, site, timers>>
          ELSE /\ BackendCreate(CHOOSE p \in free : TRUE, net.data, net.tenantId)
               /\ net' = [net EXCEPT !.phase = "ok"]

\* a deploy request of another session that loaded the profile when it was created
OtherSessionDeploy(p, targetDeviceId, failAt) ==
  /\ store[p].exists
  /\ BackendDeploy(p, targetDeviceId, failAt)
  /\ sentReq' = {}
  /\ toast' = ""
  /\ UNCHANGED <<appVars, profileLogs, qrCodeManager, createProfile, uiVars, net>>

\* the device confirms the installation of a deployed profile
DeviceConfirms(p) ==
  /\ store[p].exists /\ store[p].status = "deployed"
  /\ store' = [store EXCEPT ![p].status = "active"]
  /\ sentReq' = {}
  /\ toast' = ""
  /\ UNCHANGED <<appVars, profileLogs, qrCodeManager, createProfile, uiVars, net, configs, run, validation, now, site, timers>>

\* Deactivate-eSIM.ps1: the profile is deactivated on its device
Deactivate(p) ==
  /\ store[p].exists /\ store[p].status \in {"deployed", "active"}
  /\ store' = [store EXCEPT ![p].status = "inactive"]
  /\ sentReq' = {}
  /\ toast' = ""
  /\ UNCHANGED <<appVars, profileLogs, qrCodeManager, createProfile, uiVars, net, configs, run, validation, now, site, timers>>

\* a migration request of another session
OtherSessionMigrate(p) ==
  /\ store[p].exists /\ store[p].status \in {"deployed", "active"}
  /\ BackendMigrate(p)
  /\ sentReq' = {}
  /\ toast' = ""
  /\ UNCHANGED <<appVars, profileLogs, qrCodeManager, createProfile, uiVars, net>>

\* the device transfer of a migrating profile ends
MigrationEnds(p, ok) ==
  /\ store[p].exists /\ store[p].status = "migrating"
  /\ store' = [store EXCEPT ![p].status = IF ok THEN "active" ELSE "error"]
  /\ sentReq' = {}
  /\ toast' = ""
  /\ UNCHANGED <<appVars, profileLogs, qrCodeManager, createProfile, uiVars, net, configs, run, validation, now, site, timers>>

\* --------------------------------------------------------- ListProfiles.jsx
\* the rows the table shows
filteredProfiles ==
  {p \in Profiles :
     /\ listProfiles.profiles[p] # NoProfile
     /\ listProfiles.filterStatus = ""
          \/ listProfiles.profiles[p].status = listProfiles.filterStatus}

\* Math.ceil(totalProfiles / itemsPerPage)
totalPages == (listProfiles.totalProfiles + itemsPerPage - 1) \div itemsPerPage

ListShown == renderCurrentView = "ListProfiles" /\ ~listProfiles.loading

\* loadProfiles up to its await, called with the page currentPage
ListLoading(currentPage) ==
  [listProfiles EXCEPT !.loading = TRUE,
                       !.tenantHeader = tenantHeaderOf(storedUser),
                       !.skip = ListQuery(currentPage).skip,
                       !.limit = ListQuery(currentPage).limit]

\* loadProfiles after its request resolved (ok) or rejected
loadProfiles(ok) ==
  /\ renderCurrentView = "ListProfiles"
  /\ listProfiles.loading
  /\ LET response == ListResponse(listProfiles.tenantHeader, listProfiles.skip,
                                  listProfiles.limit)
     IN listProfiles' =
          IF ok THEN [listProfiles EXCEPT !.loading = FALSE,
                                          !.profiles = response.profiles,
                                          !.hiddenRows = response.hiddenRows,
                                          !.totalProfiles = response.total]
          ELSE [listProfiles EXCEPT !.loading = FALSE]
  /\ toast' = IF ok THEN "" ELSE "Failed to load profiles"
  /\ sentReq' = {}
  /\ UNCHANGED <<appVars, profileLogs, qrCodeManager, createProfile, deployProfile, deviceMigration,
                 updateProfile, net, store, configs, run, validation, now, site, timers>>

\* the status select of the filters
setFilterStatus(value) ==
  /\ ListShown
  /\ value \in {""} \cup Statuses
  /\ value # listProfiles.filterStatus
  /\ listProfiles' = [listProfiles EXCEPT !.filterStatus = value]
  /\ sentReq' = {}
  /\ toast' = ""
  /\ UNCHANGED <<appVars, profileLogs, qrCodeManager, createProfile, deployProfile, deviceMigration,
                 updateProfile, net, store, configs, run, validation, now, site, timers>>

\* Previous (forward = FALSE) and Next (forward = TRUE) of the pagination,
\* rendered when totalPages > 1; the effect on [currentPage] calls loadProfiles
setCurrentPage(forward) ==
  LET page == IF forward
                THEN IF listProfiles.currentPage + 1 < totalPages
                       THEN listProfiles.currentPage + 1 ELSE totalPages
                ELSE IF listProfiles.currentPage - 1 > 1
                       THEN listProfiles.currentPage - 1 ELSE 1
  IN /\ ListShown
     /\ totalPages > 1
     /\ listProfiles.currentPage # (IF forward THEN totalPages ELSE 1)
     /\ IF page = listProfiles.currentPage
          THEN /\ UNCHANGED listProfiles
               /\ sentReq' = {}
          ELSE /\ listProfiles' = [ListLoading(page) EXCEPT !.currentPage = page]
               /\ sentReq' = {ListRequest(storedUser, page)}
     /\ toast' = ""
  /\ UNCHANGED <<appVars, profileLogs, qrCodeManager, createProfile, deployProfile, deviceMigration,
                 updateProfile, net, store, configs, run, validation, now, site, timers>>

toggleProfileSelection(p) ==
  /\ ListShown
  /\ p \in filteredProfiles
  /\ listProfiles' =
       [listProfiles EXCEPT
          !.selectedProfiles = IF p \in @ THEN @ \ {p} ELSE @ \cup {p}]
  /\ sentReq' = {}
  /\ toast' = ""
  /\ UNCHANGED <<appVars, profileLogs, qrCodeManager, createProfile, deployProfile, deviceMigration,
                 updateProfile, net, store, configs, run, validation, now, site, timers>>

\* the checkbox of the table head, on a page all of whose rows are profiles
\* of Profiles
toggleSelectAll ==
  /\ ListShown
  /\ listProfiles.hiddenRows = 0
  /\ filteredProfiles # {}
  /\ listProfiles' =
       [listProfiles EXCEPT
          !.selectedProfiles =
             IF Cardinality(@) = Cardinality(filteredProfiles) THEN {} ELSE filteredProfiles]
  /\ sentReq' = {}
  /\ toast' = ""
  /\ UNCHANGED <<appVars, profileLogs, qrCodeManager, createProfile, deployProfile, deviceMigration,
                 updateProfile, net, store, configs, run, validation, now, site, timers>>

\* DELETE /api/esim/{id} for every id of ids; the requests of failed do not
\* reach the backend; the result is the set of requests that succeeded
DeleteAll(ids, failed) ==
  /\ store' = [p \in Profiles |-> IF p \in ids \ failed THEN Deleted ELSE store[p]]
  /\ UNCHANGED <<configs, run, validation, now, site, timers>>

Succeeded(ids, failed) == {p \in ids \ failed : store[p].exists}

\* handleDeleteProfile after window.confirm was accepted; loadProfiles() follows
\* a deletion that succeeded
handleDeleteProfile(p, fails) ==
  /\ ListShown
  /\ p \in filteredProfiles
  /\ DeleteAll({p}, IF fails THEN {p} ELSE {})
  /\ IF Succeeded({p}, IF fails THEN {p} ELSE {}) = {p}
       THEN /\ listProfiles' = ListLoading(listProfiles.currentPage)
            /\ sentReq' = {Request("delete", p, listProfiles.profiles[p].status, {}, "", ""),
                           ListRequest(storedUser, listProfiles.currentPage)}
            /\ toast' = "eSIM profile deleted successfully!"
       ELSE /\ UNCHANGED listProfiles
            /\ sentReq' = {Request("delete", p, listProfiles.profiles[p].status, {}, "", "")}
            /\ toast' = "Network error: Unable to connect to server"
  /\ UNCHANGED <<appVars, profileLogs, qrCodeManager, createProfile, deployProfile, deviceMigration,
                 updateProfile, net>>

\* the requests of handleBulkDelete: one DELETE for every selected id
BulkDeleteRequests ==
  {Request("delete", p, listProfiles.profiles[p].status, {}, "", "") :
     p \in listProfiles.selectedProfiles}

\* handleBulkDelete after window.confirm was accepted
handleBulkDelete(failed) ==
  /\ ListShown
  /\ listProfiles.selectedProfiles # {}
  /\ failed \subseteq listProfiles.selectedProfiles
  /\ DeleteAll(listProfiles.selectedProfiles, failed)
  /\ IF Succeeded(listProfiles.selectedProfiles, failed) = listProfiles.selectedProfiles
       THEN /\ listProfiles' = [ListLoading(listProfiles.currentPage)
                                  EXCEPT !.selectedProfiles = {}]
            /\ sentReq' = BulkDeleteRequests
                             \cup {ListRequest(storedUser, listProfiles.currentPage)}
            /\ toast' = "profiles deleted successfully"
       ELSE /\ UNCHANGED listProfiles
            /\ sentReq' = BulkDeleteRequests
            /\ toast' = "Failed to delete some profiles"
  /\ UNCHANGED <<appVars, profileLogs, qrCodeManager, createProfile, deployProfile, deviceMigration,
                 updateProfile, net>>

\* -------------------------------------------------------- DeployProfile.jsx
\* a check that only asks for a profile
canDeployOfAnyStatus(profile) == profile # NoProfile

canDeployOf(profile) == profile # NoProfile /\ profile.status \in {"created", "error"}

canDeploy == canDeployOf(selectedProfile)

DeployShown == renderCurrentView = "DeployProfile" /\ selectedProfile # NoProfile

\* the target device input; it is disabled unless canDeploy and not loading
DeployInputChange(value) ==
  /\ DeployShown
  /\ canDeploy /\ ~deployProfile.loading
  /\ deployProfile' = [deployProfile EXCEPT !.targetDeviceId = value]
  /\ sentReq' = {}
  /\ toast' = ""
  /\ UNCHANGED <<appVars, profileLogs, qrCodeManager, createProfile, listProfiles, deviceMigration, updateProfile, net, store, configs, run, validation, now, site, timers>>

\* the submit button is disabled when !canDeploy or loading; handleDeploy up to
\* the await, after window.confirm was accepted
handleDeploy ==
  /\ DeployShown
  /\ ~(~canDeploy \/ deployProfile.loading)
  /\ net = NoNet
  /\ configs[selectedProfile.id] < MaxConfigs
  /\ deployProfile' = [deployProfile EXCEPT !.loading = TRUE, !.deploymentResult = "null"]
  /\ net' = [NoNet EXCEPT !.op = "deploy", !.profileId = selectedProfile.id, !.phase = "sent",
                          !.targetDeviceId = deployProfile.targetDeviceId]
  /\ sentReq' = {Request("deploy", selectedProfile.id, selectedProfile.status, {}, "",
                         deployProfile.targetDeviceId)}
  /\ toast' = ""
  /\ UNCHANGED <<appVars, profileLogs, qrCodeManager, createProfile, listProfiles, deviceMigration, updateProfile, store, configs, run, validation, now, site, timers>>

\* a handler whose setLoading(false) is skipped when the request rejects
DeployResolvedNoFinally(response) ==
  IF renderCurrentView = "DeployProfile" /\ deployProfile.loading
    THEN /\ deployProfile' =
              [deployProfile EXCEPT
                 !.loading = (response = "rejected"),
                 !.deploymentResult = IF response = "ok" THEN "success" ELSE "failure"]
         /\ toast' = ""
    ELSE /\ UNCHANGED deployProfile
         /\ toast' = ""

\* handleDeploy after the await: response is "ok", "failed" or "rejected"
DeployResolved(response) ==
  IF renderCurrentView = "DeployProfile" /\ deployProfile.loading
    THEN /\ deployProfile' =
              [deployProfile EXCEPT
                 !.loading = FALSE,
                 !.deploymentResult = IF response = "ok" THEN "success" ELSE "failure"]
         /\ toast' = IF response = "ok" THEN "Profile deployment initiated successfully!"
                     ELSE IF response = "failed"
                            THEN "Profile deployment failed. Check the results below."
                            ELSE "Network error: Unable to connect to server"
    ELSE /\ UNCHANGED deployProfile
         /\ toast' = ""

\* ------------------------------------------------------ DeviceMigration.jsx
\* /^[a-zA-Z0-9-_]{8,64}$/
validateDeviceId(deviceId) == deviceId \in {"device-0001", "device-0002"}

MigrationShown == renderCurrentView = "DeviceMigration" /\ selectedProfile # NoProfile

\* the inputs are disabled while isLoading
MigrationInputChange(name, value) ==
  /\ MigrationShown
  /\ ~deviceMigration.isLoading
  /\ name \in {"sourceDeviceId", "targetDeviceId"}
  /\ deviceMigration' = [deviceMigration EXCEPT ![name] = value]
  /\ sentReq' = {}
  /\ toast' = ""
  /\ UNCHANGED <<appVars, profileLogs, qrCodeManager, createProfile, listProfiles, deployProfile, updateProfile, net, store, configs, run, validation, now, site, timers>>

\* a submit handler without the comparison of the two device ids
sameDeviceNever(migrationData) == FALSE

\* migrationData.sourceDeviceId === migrationData.targetDeviceId
sameDevice(migrationData) == migrationData.sourceDeviceId = migrationData.targetDeviceId

MigrationSubmitDisabled ==
  \/ deviceMigration.isLoading
  \/ selectedProfile.status = "migrating"
  \/ deviceMigration.targetDeviceId = ""
  \/ ~validateDeviceId(deviceMigration.targetDeviceId)

\* handleSubmit of the migration form up to the await
MigrationHandleSubmit ==
  /\ MigrationShown
  /\ ~MigrationSubmitDisabled
  /\ net = NoNet
  /\ IF deviceMigration.targetDeviceId = ""
       THEN /\ toast' = "Target device ID is required"
            /\ sentReq' = {}
            /\ UNCHANGED <<deviceMigration, net>>
       ELSE IF sameDevice(deviceMigration)
         THEN /\ toast' = "Source and target devices cannot be the same"
              /\ sentReq' = {}
              /\ UNCHANGED <<deviceMigration, net>>
         ELSE /\ deviceMigration' = [deviceMigration EXCEPT !.isLoading = TRUE]
              /\ net' = [NoNet EXCEPT !.op = "migrate", !.profileId = selectedProfile.id,
                                      !.phase = "sent",
                                      !.sourceDeviceId = deviceMigration.sourceDeviceId,
                                      !.targetDeviceId = deviceMigration.targetDeviceId]
              /\ sentReq' = {Request("migrate", selectedProfile.id, selectedProfile.status, {},
                                     deviceMigration.sourceDeviceId,
                                     deviceMigration.targetDeviceId)}
              /\ toast' = ""
  /\ UNCHANGED <<appVars, profileLogs, qrCodeManager, createProfile, listProfiles, deployProfile, updateProfile, store, configs, run, validation, now, site, timers>>

\* handleSubmit of the migration form after the await
MigrationResolved(response) ==
  IF renderCurrentView = "DeviceMigration" /\ deviceMigration.isLoading
    THEN /\ deviceMigration' =
              IF response = "ok"
                THEN [sourceDeviceId |-> selectedProfile.deviceId, targetDeviceId |-> "",
                      isLoading |-> FALSE]
                ELSE [deviceMigration EXCEPT !.isLoading = FALSE]
         /\ toast' = IF response = "ok" THEN "Device migration initiated successfully!"
                     ELSE "Migration failed"
    ELSE /\ UNCHANGED deviceMigration
         /\ toast' = ""

\* ---------------------------------------------------------------- helpers.js
\* a validation that asks only for the required fields to be filled in
validateProfileRequiredOnly(profile) ==
  {k \in {"displayName", "activationCode", "smdpServerUrl", "provider"} :
     trim(profile[k]) = ""}

\* validateProfile: the keys of the errors object; isValid is that it is empty
validateProfile(profile) ==
  {k \in FormKeys :
     \/ /\ k = "displayName"
        /\ trim(profile.displayName) = "" \/ Len(profile.displayName) > 100
     \/ /\ k = "activationCode"
        /\ trim(profile.activationCode) = ""
     \/ /\ k = "smdpServerUrl"
        /\ trim(profile.smdpServerUrl) = "" \/ ~isValidUrl(profile.smdpServerUrl)
     \/ /\ k = "provider"
        /\ profile.provider = ""
     \/ /\ k = "description"
        /\ profile.description # "" /\ Len(profile.description) > 500}

\* PROVIDERS: the values of the options of the provider select
PROVIDERS == {"ATOM", "Ooredoo", "Mytel", "MPT"}

\* -------------------------------------------------------- CreateProfile.jsx
CreateShown == renderCurrentView = "CreateProfile"

\* handleInputChange; the provider select offers "" and the values of PROVIDERS
CreateInputChange(name, value) ==
  /\ CreateShown
  /\ name \in FormKeys \ {"status"}
  /\ name = "provider" => value \in {""} \cup PROVIDERS
  /\ createProfile' = [createProfile EXCEPT !.formData[name] = value,
                                             !.errors = @ \ {name}]
  /\ sentReq' = {}
  /\ toast' = ""
  /\ UNCHANGED <<appVars, profileLogs, qrCodeManager, listProfiles, deployProfile, deviceMigration, updateProfile, net,
                 store, configs, run, validation, now, site, timers>>

\* profileData with the tenantId of the user App rendered with
enhancedDataOfRenderedUser(profileData) ==
  [k \in DOMAIN EmptyBody |->
     IF k = "tenantId" THEN renderUser.tenantId ELSE profileData[k]]

\* eSIMAPI.createProfile: profileData with the tenantId of the stored user
enhancedData(profileData) ==
  [k \in DOMAIN EmptyBody |->
     IF k = "tenantId" THEN storedUser.tenantId ELSE profileData[k]]

\* handleSubmit of the create form up to the await; the submit button is
\* disabled while loading
CreateHandleSubmit ==
  /\ CreateShown
  /\ ~createProfile.loading
  /\ net = NoNet
  /\ IF validateProfile(createProfile.formData) # {}
       THEN /\ createProfile' =
                 [createProfile EXCEPT !.errors = validateProfile(createProfile.formData)]
            /\ toast' = "Please fix the errors below"
            /\ sentReq' = {}
            /\ UNCHANGED net
       ELSE IF getCurrentUser = NoUser
         THEN \* 'User not authenticated' is thrown, caught and logged
              /\ toast' = ""
              /\ sentReq' = {}
              /\ UNCHANGED <<createProfile, net>>
         ELSE /\ createProfile' = [createProfile EXCEPT !.loading = TRUE]
              /\ net' = [NoNet EXCEPT !.op = "create", !.phase = "sent",
                                      !.data = createProfile.formData,
                                      !.tenantId = storedUser.tenantId]
              /\ sentReq' = {[Request("create", "null", "null", FormKeys, "", "")
                                EXCEPT !.body = enhancedData(createProfile.formData)]}
              /\ toast' = ""
  /\ UNCHANGED <<appVars, profileLogs, qrCodeManager, listProfiles, deployProfile, deviceMigration, updateProfile,
                 store, configs, run, validation, now, site, timers>>

\* handleSubmit of the create form after the await
CreateResolved(response) ==
  IF renderCurrentView = "CreateProfile" /\ createProfile.loading
    THEN /\ createProfile' =
              IF response = "ok" THEN CreateIdle
              ELSE [createProfile EXCEPT !.loading = FALSE]
         /\ toast' = IF response = "ok" THEN "eSIM profile created successfully!"
                     ELSE "Network error: Unable to connect to server"
         \* setTimeout(() => onViewChange('list'), 1500)
         /\ timers' = IF response = "ok" THEN timers \cup {"create"} ELSE timers
    ELSE /\ UNCHANGED <<createProfile, timers>>
         /\ toast' = ""

\* -------------------------------------------------------- UpdateProfile.jsx
\* the options of the status select
StatusOptions == {"created", "deployed", "active", "inactive", "error"}


\* effect on [formData, originalData]
hasChangesOf(formData, originalData) ==
  \E key \in FormKeys : formData[key] # originalData[key]

hasChanges == hasChangesOf(updateProfile.formData, updateProfile.originalData)

\* an update that sends the whole form
updateDataOfWholeForm(formData, originalData) == formData

\* updateData of handleSubmit: only the changed fields
updateDataOf(formData, originalData) ==
  [key \in FormKeys |->
     IF formData[key] # originalData[key] THEN formData[key] ELSE Absent]

UpdateShown == renderCurrentView = "UpdateProfile" /\ selectedProfile # NoProfile

UpdateInputChange(name, value) ==
  /\ UpdateShown
  /\ name \in FormKeys
  /\ name = "status" => value \in StatusOptions
  /\ updateProfile' = [updateProfile EXCEPT !.formData[name] = value,
                                             !.errors = @ \ {name}]
  /\ sentReq' = {}
  /\ toast' = ""
  /\ UNCHANGED <<appVars, profileLogs, qrCodeManager, createProfile, listProfiles, deployProfile, deviceMigration, net, store, configs, run, validation, now, site, timers>>

\* handleReset after window.confirm was accepted; the button shows when hasChanges
handleReset ==
  /\ UpdateShown
  /\ hasChanges
  /\ updateProfile' = [updateProfile EXCEPT !.formData = updateProfile.originalData]
  /\ sentReq' = {}
  /\ toast' = ""
  /\ UNCHANGED <<appVars, profileLogs, qrCodeManager, createProfile, listProfiles, deployProfile, deviceMigration, net, store, configs, run, validation, now, site, timers>>

\* handleSubmit of the update form up to the await; the submit button is
\* disabled while loading or when nothing changed
UpdateHandleSubmit ==
  /\ UpdateShown
  /\ ~(updateProfile.loading \/ ~hasChanges)
  /\ net = NoNet
  /\ IF validateProfile(updateProfile.formData) # {}
       THEN /\ updateProfile' =
                 [updateProfile EXCEPT !.errors = validateProfile(updateProfile.formData)]
            /\ toast' = "Please fix the errors below"
            /\ sentReq' = {}
            /\ UNCHANGED net
       ELSE LET updateData == updateDataOf(updateProfile.formData, updateProfile.originalData)
            IN /\ updateProfile' = [updateProfile EXCEPT !.loading = TRUE]
               /\ net' = [NoNet EXCEPT !.op = "update", !.profileId = selectedProfile.id,
                                       !.phase = "sent", !.form = updateProfile.formData,
                                       !.data = updateData]
               /\ sentReq' =
                    {[Request("update", selectedProfile.id, selectedProfile.status,
                              {key \in FormKeys : updateData[key] # Absent}, "", "")
                        EXCEPT !.body = [k \in DOMAIN EmptyBody |->
                                           IF k \in FormKeys THEN updateData[k] ELSE Absent]]}
               /\ toast' = ""
  /\ UNCHANGED <<appVars, profileLogs, qrCodeManager, createProfile, listProfiles, deployProfile, deviceMigration, store, configs, run, validation, now, site, timers>>

\* handleSubmit of the update form after the await
UpdateResolved(response) ==
  IF renderCurrentView = "UpdateProfile" /\ updateProfile.loading
    THEN /\ updateProfile' =
              IF response = "ok"
                THEN [updateProfile EXCEPT !.loading = FALSE, !.originalData = net.form]
                ELSE [updateProfile EXCEPT !.loading = FALSE]
         /\ toast' = IF response = "ok" THEN "eSIM profile updated successfully!"
                     ELSE "Network error: Unable to connect to server"
         \* setTimeout(() => onViewChange('list'), 1500)
         /\ timers' = IF response = "ok" THEN timers \cup {"update"} ELSE timers
    ELSE /\ UNCHANGED <<updateProfile, timers>>
         /\ toast' = ""

\* ---------------------------------------------------------- ProfileLogs.jsx
\* Math.ceil(totalLogs / itemsPerPage)
logsTotalPages == (profileLogs.totalLogs + logsPerPage - 1) \div logsPerPage

LogsShown ==
  /\ renderCurrentView = "ProfileLogs"
  /\ selectedProfile # NoProfile
  /\ ~profileLogs.loading

\* loadLogs after its request resolved (ok) or rejected; the backend keeps
\* site.logs log entries of the profile
LogsResolved(ok) ==
  /\ renderCurrentView = "ProfileLogs"
  /\ selectedProfile # NoProfile
  /\ profileLogs.loading \/ profileLogs.refreshing
  /\ profileLogs' =
       [profileLogs EXCEPT !.loading = FALSE, !.refreshing = FALSE,
                           !.totalLogs = IF ok THEN site.logs ELSE @]
  /\ toast' = IF ok THEN "" ELSE "Failed to load logs"
  /\ sentReq' = {}
  /\ UNCHANGED <<appVars, qrCodeManager, listProfiles, createProfile, deployProfile, deviceMigration,
                 updateProfile, net, store, configs, run, validation, now, site, timers>>

\* handleRefresh: loadLogs(true)
handleRefresh ==
  /\ LogsShown
  /\ ~profileLogs.refreshing
  /\ profileLogs' =
       [profileLogs EXCEPT !.refreshing = TRUE,
                           !.skip = LogsQuery(profileLogs.currentPage).skip,
                           !.limit = LogsQuery(profileLogs.currentPage).limit]
  /\ sentReq' = {LogsRequest(storedUser, selectedProfile.id, profileLogs.currentPage)}
  /\ toast' = ""
  /\ UNCHANGED <<appVars, qrCodeManager, listProfiles, createProfile, deployProfile, deviceMigration,
                 updateProfile, net, store, configs, run, validation, now, site, timers>>

\* Previous (forward = FALSE) and Next (forward = TRUE) of the pagination of
\* the logs, rendered when totalPages > 1; the effect on [profile,
\* currentPage] calls loadLogs
setLogsPage(forward) ==
  LET page == IF forward
                THEN IF profileLogs.currentPage + 1 < logsTotalPages
                       THEN profileLogs.currentPage + 1 ELSE logsTotalPages
                ELSE IF profileLogs.currentPage - 1 > 1
                       THEN profileLogs.currentPage - 1 ELSE 1
  IN /\ LogsShown
     /\ ~profileLogs.refreshing
     /\ logsTotalPages > 1
     /\ profileLogs.currentPage # (IF forward THEN logsTotalPages ELSE 1)
     /\ IF page = profileLogs.currentPage
          THEN /\ UNCHANGED profileLogs
               /\ sentReq' = {}
          ELSE /\ profileLogs' = [profileLogs EXCEPT !.currentPage = page,
                                                     !.loading = TRUE,
                                                     !.skip = LogsQuery(page).skip,
                                                     !.limit = LogsQuery(page).limit]
               /\ sentReq' = {LogsRequest(storedUser, selectedProfile.id, page)}
     /\ toast' = ""
  /\ UNCHANGED <<appVars, qrCodeManager, listProfiles, createProfile, deployProfile, deviceMigration,
                 updateProfile, net, store, configs, run, validation, now, site, timers>>

\* -------------------------------------------------------- QRCodeManager.jsx
\* isExpired(), evaluated by a render at time t
isExpired(qrData, t) ==
  IF qrData.expiresAt = NoQr.expiresAt THEN FALSE ELSE qrData.expiresAt < t

\* getTimeUntilExpiry(), evaluated by a render at time t
getTimeUntilExpiry(qrData, t) ==
  IF qrData.expiresAt = NoQr.expiresAt THEN "null"
  ELSE IF qrData.expiresAt - t <= 0 THEN "Expired" ELSE "remaining"

\* the branch of the render that shows the QR code, its details and the
\* buttons Download QR Code, Copy QR Data and Refresh QR Code
QrShown ==
  /\ renderCurrentView = "QRCodeManager"
  /\ selectedProfile # NoProfile
  /\ ~qrCodeManager.isLoading
  /\ ~qrCodeManager.error
  /\ qrCodeManager.qrData # NoQr

\* the branch of the render that shows the error and the button Retry
QrErrorShown ==
  /\ renderCurrentView = "QRCodeManager"
  /\ selectedProfile # NoProfile
  /\ ~qrCodeManager.isLoading
  /\ qrCodeManager.error

\* fetchQRCode up to its await: Retry and Refresh QR Code
fetchQRCode ==
  /\ QrShown \/ QrErrorShown
  /\ qrCodeManager' = [qrCodeManager EXCEPT !.isLoading = TRUE, !.error = FALSE]
  /\ sentReq' = {QrRequest(storedUser, selectedProfile.id)}
  /\ toast' = ""
  /\ UNCHANGED <<appVars, profileLogs, listProfiles, createProfile, deployProfile, deviceMigration,
                 updateProfile, net, store, configs, run, validation, now, site, timers>>

\* fetchQRCode after GET /api/qr/{profileId} resolved with the QR code qrCode
\* (ok) or rejected
QrResolved(ok, qrCode) ==
  /\ renderCurrentView = "QRCodeManager"
  /\ selectedProfile # NoProfile
  /\ qrCodeManager.isLoading
  /\ qrCodeManager' =
       IF ok THEN [qrCodeManager EXCEPT !.isLoading = FALSE, !.qrData = qrCode]
       ELSE [qrCodeManager EXCEPT !.isLoading = FALSE, !.error = TRUE]
  /\ sentReq' = {}
  /\ toast' = ""
  /\ UNCHANGED <<appVars, profileLogs, listProfiles, createProfile, deployProfile, deviceMigration,
                 updateProfile, net, store, configs, run, validation, now, site, timers>>

\* copyQRData: navigator.clipboard.writeText(qrData.qrData) resolves or rejects
copyQRData(ok) ==
  /\ QrShown
  /\ toast' = IF ok THEN "QR data copied to clipboard!" ELSE "Failed to copy QR data"
  /\ sentReq' = {}
  /\ UNCHANGED <<appVars, profileLogs, qrCodeManager, listProfiles, createProfile, deployProfile, deviceMigration,
                 updateProfile, net, store, configs, run, validation, now, site, timers>>

\* downloadQRCode: qrCodeAPI.downloadQRCode gets the QR code of the profile
\* again and saves its image
downloadQRCode(ok) ==
  /\ QrShown
  /\ toast' = IF ok THEN "QR code downloaded successfully!"
              ELSE "Failed to download QR code"
  /\ sentReq' = {QrRequest(storedUser, selectedProfile.id)}
  /\ UNCHANGED <<appVars, profileLogs, qrCodeManager, listProfiles, createProfile, deployProfile, deviceMigration,
                 updateProfile, net, store, configs, run, validation, now, site, timers>>

\* a tick of the clock
Tick ==
  /\ now < MaxTime
  /\ now' = now + 1
  /\ sentReq' = {}
  /\ toast' = ""
  /\ UNCHANGED <<appVars, uiVars, net, store, configs, run, validation, site, timers>>

\* ------------------------------------------------- responses of the backend
\* the response to the request in flight reaches this tab, or is lost on the way
Delivers(op) ==
  /\ net.phase \in {"ok", "failed"}
  /\ net.op = op
  /\ net' = NoNet
  /\ sentReq' = {}
  /\ UNCHANGED <<appVars, profileLogs, qrCodeManager, listProfiles, store, configs, run, validation,
                 now, site>>

ResponseOf(lost) == IF lost THEN "rejected" ELSE net.phase

DeliverDeploy(lost) ==
  /\ Delivers("deploy")
  /\ DeployResolved(ResponseOf(lost))
  /\ UNCHANGED <<createProfile, deviceMigration, updateProfile, timers>>

DeliverMigrate(lost) ==
  /\ Delivers("migrate")
  /\ MigrationResolved(ResponseOf(lost))
  /\ UNCHANGED <<createProfile, deployProfile, updateProfile, timers>>

DeliverUpdate(lost) ==
  /\ Delivers("update")
  /\ UpdateResolved(ResponseOf(lost))
  /\ UNCHANGED <<createProfile, deployProfile, deviceMigration>>

DeliverCreate(lost) ==
  /\ Delivers("create")
  /\ CreateResolved(ResponseOf(lost))
  /\ UNCHANGED <<deployProfile, deviceMigration, updateProfile>>

\* ------------------------------------------------------------ specifications
\* the users that log in
Operator == [role |-> "operator", tenantId |-> "T1"]
TenantUsers == [role : {"admin", "operator", "viewer"}, tenantId : {"T1"}]

\* no profile, or the held object of profile id
HeldOf(id) == {p \in ProfilesHeld : p.id \in {"null", id}}

\* login, logout, session reset and navigation of one tab, every user and view
AccessNext ==
  \/ \E u \in Users : handleLoginSuccess(u)
  \/ handleLogout
  \/ \E v \in Views, p \in ProfilesHeld : handleViewChange(v, p)
  \/ checkAuth
  \/ SessionExpired
  \/ \E ok \in BOOLEAN : loadProfiles(ok)

Spec == Init /\ [][AccessNext]_vars

\* the same with a second tab of the origin
TabsNext ==
  \/ AccessNext
  \/ \E u \in Users \cup {NoUser} : StorageChangedElsewhere(u)

SpecTabs == Init /\ [][TabsNext]_vars

\* the profile list of the users of tenant T1
ListNext ==
  \/ \E u \in TenantUsers : handleLoginSuccess(u)
  \/ handleLogout
  \/ \E v \in {"dashboard", "list"} : handleViewChange(v, NoProfile)
  \/ \E ok \in BOOLEAN : loadProfiles(ok)
  \/ \E p \in Profiles : toggleProfileSelection(p)
  \/ toggleSelectAll
  \/ \E p \in Profiles, fails \in BOOLEAN : handleDeleteProfile(p, fails)
  \/ \E failed \in SUBSET Profiles : handleBulkDelete(failed)

SpecList == Init /\ [][ListNext]_vars

\* an operator deploys profile P1 while other sessions and the device act on it
DeployNext ==
  \/ handleLoginSuccess(Operator)
  \/ \E v \in {"list", "deploy"}, p \in HeldOf("P1") : handleViewChange(v, p)
  \/ \E ok \in BOOLEAN : loadProfiles(ok)
  \/ \E value \in {"", "device-0001"} : DeployInputChange(value)
  \/ handleDeploy
  \/ \E failAt \in FailPoints : BackendHandleDeploy(failAt)
  \/ \E lost \in BOOLEAN : DeliverDeploy(lost)
  \/ \E failAt \in FailPoints : OtherSessionDeploy("P1", "", failAt)
  \/ DeviceConfirms("P1")
  \/ Deactivate("P1")
  \/ OtherSessionMigrate("P1")
  \/ \E ok \in BOOLEAN : MigrationEnds("P1", ok)

SpecDeploy == Init /\ [][DeployNext]_vars

\* an operator deploys profile P1 and nobody else acts on it
RedeployNext ==
  \/ handleLoginSuccess(Operator)
  \/ \E v \in {"list", "deploy"}, p \in HeldOf("P1") : handleViewChange(v, p)
  \/ \E ok \in BOOLEAN : loadProfiles(ok)
  \/ \E value \in {"", "device-0001"} : DeployInputChange(value)
  \/ handleDeploy
  \/ \E failAt \in FailPoints : BackendHandleDeploy(failAt)
  \/ \E lost \in BOOLEAN : DeliverDeploy(lost)

SpecRedeploy == Init /\ [][RedeployNext]_vars

\* the same steps; the backend answers every request it received, and the
\* request of the client settles: axios rejects it at its timeout at the latest
SpecDeployLive ==
  /\ Init /\ [][RedeployNext]_vars
  /\ WF_vars(\E failAt \in FailPoints : BackendHandleDeploy(failAt))
  /\ WF_vars(\E lost \in BOOLEAN : DeliverDeploy(lost))

\* an operator migrates profile P1 while other sessions and the device act on it
MigrationNext ==
  \/ handleLoginSuccess(Operator)
  \/ \E v \in {"list", "migration"}, p \in HeldOf("P1") : handleViewChange(v, p)
  \/ \E ok \in BOOLEAN : loadProfiles(ok)
  \/ \E name \in {"sourceDeviceId", "targetDeviceId"}, value \in DeviceIds :
       MigrationInputChange(name, value)
  \/ MigrationHandleSubmit
  \/ BackendHandleMigrate
  \/ \E lost \in BOOLEAN : DeliverMigrate(lost)
  \/ \E failAt \in {"none", "create"} : OtherSessionDeploy("P1", "device-0001", failAt)
  \/ DeviceConfirms("P1")
  \/ Deactivate("P1")
  \/ \E ok \in BOOLEAN : MigrationEnds("P1", ok)

SpecMigration == Init /\ [][MigrationNext]_vars

\* an operator updates profile P1
StatusInputs == {"created", "deployed", "active"}

UpdateNext ==
  \/ handleLoginSuccess(Operator)
  \/ \E v \in {"list", "update"}, p \in HeldOf("P1") : handleViewChange(v, p)
  \/ \E ok \in BOOLEAN : loadProfiles(ok)
  \/ \E value \in Names : UpdateInputChange("displayName", value)
  \/ \E value \in StatusInputs : UpdateInputChange("status", value)
  \/ handleReset
  \/ UpdateHandleSubmit
  \/ BackendHandleUpdate
  \/ \E lost \in BOOLEAN : DeliverUpdate(lost)

SpecUpdate == Init /\ [][UpdateNext]_vars

\* an operator fills in the create form with values around the limits of
\* validateProfile; the backend rejects what is submitted
ValidateNames == {"", " ", "n1", Repeat("n", 100), Repeat("n", 101)}
ValidateDescriptions == {"", Repeat("d", 500), Repeat("d", 501)}
ValidateCodes == {"", " ", ValidCode}
ValidateUrls == {"", "not-a-url", "https://", "https://smdp.atom.com.mm"}

ValidateNext ==
  \/ handleLoginSuccess(Operator)
  \/ \E v \in {"dashboard", "create"} : handleViewChange(v, NoProfile)
  \/ \E value \in ValidateNames : CreateInputChange("displayName", value)
  \/ \E value \in ValidateDescriptions : CreateInputChange("description", value)
  \/ \E value \in ValidateCodes : CreateInputChange("activationCode", value)
  \/ \E value \in ValidateUrls : CreateInputChange("smdpServerUrl", value)
  \/ \E value \in {""} \cup PROVIDERS : CreateInputChange("provider", value)
  \/ CreateHandleSubmit
  \/ BackendHandleCreate(TRUE)
  \/ \E lost \in BOOLEAN : DeliverCreate(lost)

SpecValidate == Init /\ [][ValidateNext]_vars

\* an operator creates a profile and updates profile P1, with form values
\* that pass and that fail the validation
FormsNext ==
  \/ handleLoginSuccess(Operator)
  \/ \E v \in {"list", "create", "update"}, p \in HeldOf("P1") : handleViewChange(v, p)
  \/ \E ok \in BOOLEAN : loadProfiles(ok)
  \/ \E value \in {"", "n1"} : CreateInputChange("displayName", value)
  \/ CreateInputChange("activationCode", ValidCode)
  \/ \E value \in {"not-a-url", "https://smdp.atom.com.mm"} :
       CreateInputChange("smdpServerUrl", value)
  \/ CreateInputChange("provider", "ATOM")
  \/ CreateHandleSubmit
  \/ \E fails \in BOOLEAN : BackendHandleCreate(fails)
  \/ \E lost \in BOOLEAN : DeliverCreate(lost)
  \/ \E value \in {"", "n2"} : UpdateInputChange("displayName", value)
  \/ UpdateInputChange("smdpServerUrl", "not-a-url")
  \/ handleReset
  \/ UpdateHandleSubmit
  \/ BackendHandleUpdate
  \/ \E lost \in BOOLEAN : DeliverUpdate(lost)

SpecForms == Init /\ [][FormsNext]_vars

\* the activation code of end-to-end scenario 1
Scenario1Code == Repeat("A", 32)

\* an operator creates an ATOM profile with the activation code of scenario 1
\* or with an LPA code and deploys it; no call of the script fails from outside
ScenarioNext ==
  \/ handleLoginSuccess(Operator)
  \/ \E v \in {"create", "list", "deploy"}, p \in HeldOf("P3") : handleViewChange(v, p)
  \/ \E ok \in BOOLEAN : loadProfiles(ok)
  \/ \E value \in {"n1", "n2"} : CreateInputChange("displayName", value)
  \/ \E value \in {Scenario1Code, ValidCode} : CreateInputChange("activationCode", value)
  \/ CreateInputChange("smdpServerUrl", "https://smdp.atom.com.mm")
  \/ CreateInputChange("provider", "ATOM")
  \/ CreateHandleSubmit
  \/ BackendHandleCreate(FALSE)
  \/ DeliverCreate(FALSE)
  \/ \E value \in {"", "device-0001"} : DeployInputChange(value)
  \/ handleDeploy
  \/ BackendHandleDeploy("none")
  \/ DeliverDeploy(FALSE)

SpecScenario == Init /\ [][ScenarioNext]_vars

\* activation codes of the shape of each provider, in upper and in lower
\* case, and codes next to those shapes
ProviderCodes ==
  {"ABCDE-12345-FGHIJ-67890", "abcde-12345-fghij-67890", "ABCDE-12345-FGHIJ",
   "ABCDE_12345_FGHIJ_67890",
   Repeat("A", 31), Repeat("A", 32), Repeat("a", 32), Repeat("A", 64), Repeat("A", 65),
   Repeat("A", 31) \o "-", ValidCode, "lpa:1$smdp", "LPA:2$smdp", "LPA:1",
   "MYTEL-0001-0002-0003", "mytel-0001-0002-0003", Repeat("-", 19), Repeat("9", 51)}

\* runs of the provider script
ProviderNext ==
  \E Provider \in ProviderNames, ActivationCode \in ProviderCodes,
     DeviceEID \in {"", "eid-0001"}, httpFails \in BOOLEAN :
    ProviderValidation(Provider, ActivationCode, DeviceEID, httpFails)

SpecProvider == Init /\ [][ProviderNext]_vars

\* an operator deploys profile P1 from the portal and an administrator runs
\* Intune-Deployment.ps1 for it; every call of the scripts can fail
ScriptsNext ==
  \/ handleLoginSuccess(Operator)
  \/ \E v \in {"list", "deploy"}, p \in HeldOf("P1") : handleViewChange(v, p)
  \/ \E ok \in BOOLEAN : loadProfiles(ok)
  \/ handleDeploy
  \/ \E failAt \in FailPoints : BackendHandleDeploy(failAt)
  \/ \E lost \in BOOLEAN : DeliverDeploy(lost)
  \/ \E failAt \in IntuneFailPoints, terminating \in BOOLEAN :
       RunIntuneDeployment("P1", "esimplus.onmicrosoft.com", failAt, terminating)

SpecScripts == Init /\ [][ScriptsNext]_vars

\* the tenants the scripts are run for
GraphTenants == {"esimplus.onmicrosoft.com", "contoso.onmicrosoft.com"}

\* the scripts that connect to Graph, run for one tenant and for the other
GraphTenantNext ==
  \/ handleLoginSuccess(Operator)
  \/ \E v \in {"list", "deploy"}, p \in HeldOf("P1") : handleViewChange(v, p)
  \/ \E ok \in BOOLEAN : loadProfiles(ok)
  \/ handleDeploy
  \/ \E failAt \in {"none", "authentication"} : BackendHandleDeploy(failAt)
  \/ \E lost \in BOOLEAN : DeliverDeploy(lost)
  \/ \E TenantId \in GraphTenants, failAt \in {"none", "authentication"} :
       RunIntuneDeployment("P1", TenantId, failAt, TRUE)
  \/ \E TenantId \in GraphTenants, failAt \in {"none", "authentication", "remove"},
        terminating \in BOOLEAN :
       RunDeactivateScript("P1", TenantId, failAt, terminating)

SpecGraphTenant == Init /\ [][GraphTenantNext]_vars

\* operators of two tenants create profiles in one tab while other tabs of the
\* browser log out and log in
OperatorT2 == [role |-> "operator", tenantId |-> "T2"]

TenantNext ==
  \/ \E u \in {Operator, OperatorT2} : handleLoginSuccess(u)
  \/ \E v \in {"create", "list"} : handleViewChange(v, NoProfile)
  \/ \E ok \in BOOLEAN : loadProfiles(ok)
  \/ CreateInputChange("displayName", "n1")
  \/ CreateInputChange("activationCode", ValidCode)
  \/ CreateInputChange("smdpServerUrl", "https://smdp.atom.com.mm")
  \/ CreateInputChange("provider", "ATOM")
  \/ CreateHandleSubmit
  \/ \E fails \in BOOLEAN : BackendHandleCreate(fails)
  \/ \E lost \in BOOLEAN : DeliverCreate(lost)
  \/ \E u \in {NoUser, Operator, OperatorT2} : StorageChangedElsewhere(u)

SpecTenant == Init /\ [][TenantNext]_vars

\* --------------------------------------------------------------- properties
\* C1: tenant isolation.  A step that opens a component that operates on a
\* profile (the authorization decision of handleViewChange was allow) is never
\* taken while the stored user belongs to another tenant than the profile.
ProfileComponents ==
  {"UpdateProfile", "DeployProfile", "ProfileLogs", "QRCodeManager", "DeviceMigration"}

C1_TenantIsolation ==
  [][~(/\ selectedProfile' # selectedProfile
       /\ selectedProfile' # NoProfile
       /\ renderOf(isAuthenticated', currentView', storedUser') \in ProfileComponents
       /\ storedUser # NoUser
       /\ selectedProfile'.tenantId # storedUser.tenantId)]_vars

\* C2: hasPermission(requiredRole) is true exactly when a user is stored and
\* the pair of its role and the required role is in the order admin >
\* operator > viewer; it is false without a stored user, for a role outside
\* the three roles and for a required role outside the three roles.
RoleOrder ==
  {<<"admin", "admin">>, <<"admin", "operator">>, <<"admin", "viewer">>,
   <<"operator", "operator">>, <<"operator", "viewer">>, <<"viewer", "viewer">>}

C2_HasPermissionTotalOrder ==
  \A requiredRole \in Roles \cup {"superadmin", ""} :
    hasPermission(requiredRole)
      <=> (storedUser # NoUser /\ <<storedUser.role, requiredRole>> \in RoleOrder)

C2_Witness ==
  /\ storedUser # NoUser /\ storedUser.role = "admin"
  /\ hasPermission("viewer")
  /\ ~hasPermission("superadmin")

C4_DeleteOnlyByAdmin ==
  \A r \in sentReq : r.op = "delete" => r.role = "admin"

\* C5: a deploy request is sent only from a deploy view whose profile has
\* status created or error; in a deploy view of a profile with another status
\* the form stays as mounted and no request of the view is in flight.
C5_DeployOnlyCreatedOrError ==
  /\ \A r \in sentReq : r.op = "deploy" => r.viewStatus \in {"created", "error"}
  /\ (DeployShown /\ selectedProfile.status \notin {"created", "error"})
       => (deployProfile = DeployIdle /\ net = NoNet)

\* a deploy request left the view of a profile with status error
C5_Witness ==
  \E r \in sentReq : r.op = "deploy" /\ r.viewStatus = "error"

C8_UpdateNeverCarriesStatus ==
  \A r \in sentReq : r.op = "update" => "status" \notin r.fields

\* C9: a migration request is sent only from a migration view whose profile
\* has status deployed or active.
C9_MigrateOnlyDeployedOrActive ==
  \A r \in sentReq : r.op = "migrate" => r.viewStatus \in {"deployed", "active"}

\* C10: no migration request has equal source and target device ids, and the
\* step that raises the error for equal ids sends nothing and leaves the form,
\* the request in flight and the stored profiles as they were.
C10_NeverSameDevice ==
  [][/\ \A r \in sentReq' : r.op = "migrate" => r.sourceDeviceId # r.targetDeviceId
     /\ toast' = "Source and target devices cannot be the same"
          => /\ sentReq' = {}
             /\ UNCHANGED <<deviceMigration, net, store>>]_vars

\* the error for equal ids was raised for a form that could be submitted
C10_Witness ==
  /\ toast = "Source and target devices cannot be the same"
  /\ deviceMigration.sourceDeviceId = deviceMigration.targetDeviceId
  /\ validateDeviceId(deviceMigration.targetDeviceId)
\* C11: validateProfile reports no error exactly when displayName is not
\* blank and at most 100 characters long, activationCode is not blank,
\* smdpServerUrl is a well-formed absolute URL, provider is one of MPT, ATOM,
\* OOREDOO, MYTEL and description is absent or at most 500 characters long;
\* otherwise it reports exactly the failing fields.
ProviderSet == {"MPT", "ATOM", "OOREDOO", "MYTEL"}

FailingFields(profile) ==
  {k \in FormKeys :
     \/ k = "displayName"
          /\ (trim(profile.displayName) = "" \/ Len(profile.displayName) > 100)
     \/ k = "activationCode" /\ trim(profile.activationCode) = ""
     \/ k = "smdpServerUrl" /\ ~isValidUrl(profile.smdpServerUrl)
     \/ k = "provider" /\ profile.provider \notin ProviderSet
     \/ k = "description" /\ Len(profile.description) > 500}

C11_ValidateProfile ==
  validateProfile(createProfile.formData) = FailingFields(createProfile.formData)

\* C12: every create and update request is sent for form data without a
\* validation error (required fields filled in, lengths within the limits, a
\* well-formed URL); the step that reports validation errors sends nothing,
\* creates and changes no profile and leaves the form data as it was.
Submittable(profile) ==
  /\ trim(profile.displayName) # "" /\ Len(profile.displayName) <= 100
  /\ trim(profile.activationCode) # ""
  /\ isValidUrl(profile.smdpServerUrl)
  /\ profile.provider # ""
  /\ Len(profile.description) <= 500

C12_SentOnlyWhenValid ==
  [][/\ \A r \in sentReq' :
          /\ r.op = "create" => Submittable(createProfile.formData)
          /\ r.op = "update" => Submittable(updateProfile.formData)
     /\ toast' = "Please fix the errors below"
          => /\ sentReq' = {}
             /\ createProfile'.formData = createProfile.formData
             /\ updateProfile'.formData = updateProfile.formData
             /\ UNCHANGED <<net, store>>]_vars

\* the create form with smdpServerUrl not-a-url was submitted and rejected
C12_Witness ==
  /\ toast = "Please fix the errors below"
  /\ createProfile.formData.smdpServerUrl = "not-a-url"
  /\ createProfile.errors = {"smdpServerUrl"}
  /\ \A p \in Profiles : store[p].exists <=> p \in {"P1", "P2"}

\* C13: the provider carried by every create and update request of the forms
\* is one of MPT, ATOM, OOREDOO, MYTEL.
C13_FormProviderEnumerated ==
  \A r \in sentReq :
    (r.op \in {"create", "update"} /\ r.body.provider # Absent)
      => r.body.provider \in ProviderSet

\* C14: a profile created with provider ATOM, the activation code of 32 'A'
\* and smdpServerUrl https://smdp.atom.com.mm is stored with status created;
\* its deployment, with no failure from outside, meets the prerequisite
\* checks, ends with exit code 0 and the one success line, leaves one more
\* device configuration and the profile with status deployed.
Scenario1Profile(document) ==
  /\ document.exists
  /\ document.provider = "ATOM"
  /\ document.activationCode = Scenario1Code
  /\ document.smdpServerUrl = "https://smdp.atom.com.mm"

C14_Scenario1 ==
  [][\A p \in Profiles :
       /\ (~store[p].exists /\ Scenario1Profile(store'[p]))
            => store'[p].status = "created"
       /\ ( /\ Scenario1Profile(store[p])
            /\ net.op = "deploy" /\ net.profileId = p
            /\ net.phase = "sent" /\ net'.phase \in {"ok", "failed"} )
            => /\ run'.prerequisites
               /\ run'.exit = 0
               /\ AuditLog("SUCCESS", "eSIM deployment completed successfully") \in run'.output
               /\ AuditLog("ERROR", "eSIM deployment failed") \notin run'.output
               /\ configs'[p] = configs[p] + 1
               /\ store'[p].status = "deployed"]_vars

C16_ExactlyOneOutcome ==
  run.script = "Deploy-eSIMProfile" =>
    LET succeeded == AuditLog("SUCCESS", "eSIM deployment completed successfully") \in run.output
        failed == AuditLog("ERROR", "eSIM deployment failed") \in run.output
    IN \/ succeeded /\ ~failed /\ run.exit = 0
       \/ failed /\ ~succeeded /\ run.exit = 1

\* C17: a run of a deployment script that ended in failure left no device
\* configuration behind.
C17_FailedRunLeavesNothing ==
  (run # NoRun /\ run.exit # 0) => run.created = 0

\* C18: a deploy submission ends: loading becomes false again, and when it
\* does in the deploy view deploymentResult is success or failure; while
\* loading is true no deploy request is sent; after a failed attempt the
\* submit button of the view is enabled again.
C18_DeployTerminates ==
  /\ deployProfile.loading ~> ~deployProfile.loading
  /\ [][/\ (deployProfile.loading /\ ~deployProfile'.loading /\ DeployShown')
             => deployProfile'.deploymentResult \in {"success", "failure"}
        /\ deployProfile.loading => \A r \in sentReq' : r.op # "deploy"]_vars
  /\ []((DeployShown /\ deployProfile.deploymentResult = "failure")
          => (canDeploy /\ ~deployProfile.loading))

\* a deploy request was sent for a profile whose deployment had failed
C18_Witness ==
  /\ deployProfile.loading
  /\ \E r \in sentReq : r.op = "deploy" /\ store[r.profileId].status = "error"

\* C19: every request carries the tenantId of the stored user as X-Tenant-ID
\* when a user is stored; a create request is sent only when a user is stored
\* and carries that user's tenantId in its body.
C19_TenantOfStoredUser ==
  \A r \in sentReq :
    /\ storedUser # NoUser => r.tenantHeader = storedUser.tenantId
    /\ r.op = "create" => (storedUser # NoUser /\ r.body.tenantId = storedUser.tenantId)

\* a create request left a tab that was rendered for a user of tenant T1 after
\* another tab had stored a user of tenant T2
C19_Witness ==
  /\ renderUser # NoUser /\ renderUser.tenantId = "T1"
  /\ \E r \in sentReq : r.op = "create" /\ r.body.tenantId = "T2" /\ r.tenantHeader = "T2"

\* C20: the body of an update request holds, of the form fields, exactly those
\* whose value differs from the value loaded into the form, with the value of
\* the form; it holds at least one field; it holds no id, tenantId, createdAt
\* or updatedAt.
C20_UpdateSendsOnlyChanges ==
  [][\A r \in sentReq' :
       r.op = "update" =>
         /\ \A k \in FormKeys :
              IF updateProfile.formData[k] # updateProfile.originalData[k]
                THEN r.body[k] = updateProfile.formData[k]
                ELSE r.body[k] = Absent
         /\ \E k \in FormKeys : r.body[k] # Absent
         /\ \A k \in {"id", "tenantId", "createdAt", "updatedAt"} :
              k \in DOMAIN r.body => r.body[k] = Absent]_vars

\* an update request with a changed displayName and nothing else was sent
C20_Witness ==
  \E r \in sentReq :
    /\ r.op = "update"
    /\ r.body.displayName = "n2"
    /\ \A k \in FormKeys \ {"displayName"} : r.body[k] = Absent

\* C21: a run that connected to Graph connected to the tenant it was given
\* (the TenantId parameter, or GRAPH_TENANT_ID for the script that reads it),
\* and the TenantId of its result is the tenant it connected to.
C21_TenantInjected ==
  run.tenantConnected # "" =>
    /\ run.tenantConnected = run.tenantGiven
    /\ run.tenantReported # "" => run.tenantReported = run.tenantConnected

\* C22: a bulk delete sends one delete request for every selected id, and the
\* requests that fail leave the others done; after it the view tells the
\* deleted profiles from the ones whose request failed: it reloads the list,
\* or it shows and keeps selected only the profiles that were not deleted.
C22_BulkDeletePerItem ==
  [][(\E r \in sentReq' : r.op = "delete") =>
       LET ids == {r.profileId : r \in {x \in sentReq' : x.op = "delete"}}
           deleted == {p \in ids : store[p].exists /\ ~store'[p].exists}
       IN /\ \A p \in Profiles \ ids : store'[p] = store[p]
          /\ \A p \in ids \ deleted : store'[p] = store[p]
          /\ \/ listProfiles'.loading
             \/ \A p \in deleted :
                  /\ p \notin listProfiles'.selectedProfiles
                  /\ listProfiles'.profiles[p] = NoProfile]_vars
\* ------------------------------------------------------------------ paging
Admin == [role |-> "admin", tenantId |-> "T1"]

\* the installations: either client, a tenant T1 with ten more profiles than
\* those of Profiles or none, profiles with 45 log entries or none
Sites == [client : Clients, hidden : {0, 10}, logs : {0, 45}]

InitPaging == \E installed \in Sites : InitWith(installed)

\* an admin pages through the list and the logs, filters, selects and deletes
PagingNext ==
  \/ handleLoginSuccess(Admin)
  \/ \E v \in {"list", "logs"}, p \in ProfilesHeld : handleViewChange(v, p)
  \/ \E ok \in BOOLEAN : loadProfiles(ok)
  \/ \E forward \in BOOLEAN : setCurrentPage(forward)
  \/ \E value \in {"", "deployed"} : setFilterStatus(value)
  \/ \E p \in Profiles : toggleProfileSelection(p)
  \/ toggleSelectAll
  \/ \E p \in Profiles, fails \in BOOLEAN : handleDeleteProfile(p, fails)
  \/ \E failed \in SUBSET Profiles : handleBulkDelete(failed)
  \/ \E ok \in BOOLEAN : LogsResolved(ok)
  \/ handleRefresh
  \/ \E forward \in BOOLEAN : setLogsPage(forward)

SpecPaging == InitPaging /\ [][PagingNext]_vars

\* C25: the list request of page N carries skip = (N-1)*10 and limit = 10, and
\* the log request of page N carries skip = (N-1)*20 and limit = 20, with
\* either client
C25_PageQueries ==
  \A r \in sentReq :
    /\ r.op = "list" =>
         r.skip = (listProfiles.currentPage - 1) * 10 /\ r.limit = 10
    /\ r.op = "logs" =>
         r.skip = (profileLogs.currentPage - 1) * 20 /\ r.limit = 20

\* C28: the list's currentPage is at least 1 and at most
\* max(1, ceil(totalProfiles / itemsPerPage))
C28_CurrentPageInRange ==
  ListShown =>
    /\ 1 <= listProfiles.currentPage
    /\ listProfiles.currentPage <= (IF totalPages > 1 THEN totalPages ELSE 1)

\* C29: selectedProfiles holds only ids of the filtered list that is displayed
C29_SelectedAreDisplayed ==
  ListShown => listProfiles.selectedProfiles \subseteq filteredProfiles

\* ----------------------------------------------------------------- session
\* operators of both tenants and a viewer log in and out, open and save the
\* forms, and the timers of the saves run
SessionNext ==
  \/ \E u \in {Operator, OperatorT2, [role |-> "viewer", tenantId |-> "T1"]} :
       handleLoginSuccess(u)
  \/ handleLogout
  \/ \E v \in {"dashboard", "list", "create", "update", "logs"}, p \in ProfilesHeld :
       handleViewChange(v, p)
  \/ loadProfiles(TRUE)
  \/ LogsResolved(TRUE)
  \/ UpdateInputChange("displayName", "n2")
  \/ UpdateHandleSubmit
  \/ BackendHandleUpdate
  \/ DeliverUpdate(FALSE)
  \/ CreateInputChange("displayName", "n1")
  \/ CreateInputChange("activationCode", ValidCode)
  \/ CreateInputChange("smdpServerUrl", "https://smdp.atom.com.mm")
  \/ CreateInputChange("provider", "ATOM")
  \/ CreateHandleSubmit
  \/ BackendHandleCreate(FALSE)
  \/ DeliverCreate(FALSE)
  \/ \E form \in {"create", "update"} : TimerFires(form)

SpecSession == Init /\ [][SessionNext]_vars

ProfileBound ==
  {"UpdateProfile", "DeployProfile", "ProfileLogs", "QRCodeManager", "DeviceMigration"}

\* C27: no login or logout renders a profile-bound view, and a profile-bound
\* view shows a profile only if the step that renders it takes the profile
\* from the list on display or the view before it was profile-bound and
\* showed the same profile: never a profile that a logout left in App
C27_NoProfileFromBeforeLogout ==
  [][/\ isAuthenticated' # isAuthenticated => renderCurrentView' \notin ProfileBound
     /\ (renderCurrentView' \in ProfileBound /\ selectedProfile' # NoProfile) =>
          \/ renderCurrentView \in ProfileBound /\ selectedProfile' = selectedProfile
          \/ ListShown /\ \E p \in Profiles : selectedProfile' = listProfiles.profiles[p]]_vars

\* handleLoginSuccess has just run while App holds the profile selected
\* before the logout
C27_Witness ==
  /\ toast = "Welcome back"
  /\ isAuthenticated
  /\ selectedProfile # NoProfile
  /\ storedUser = OperatorT2

\* C30: the timer of a saved form changes currentView and selectedProfile only
\* if App still shows that form when it runs
C30_TimerOnlyOnItsForm ==
  [][\A form \in timers \ timers' :
       renderCurrentView # FormOf(form) => UNCHANGED <<currentView, selectedProfile>>]_vars

\* ---------------------------------------------------------------- QR codes
\* the QR codes GET /api/qr/{profileId} answers with at time t: expiresAt is
\* later than the time of creation
QrCodesAt(t) == [expiresAt : (t + 1)..MaxTime, isActive : BOOLEAN]

\* a viewer opens the QR code of a profile, fetches, copies and downloads it
\* while the clock runs
QrNext ==
  \/ handleLoginSuccess([role |-> "viewer", tenantId |-> "T1"])
  \/ \E v \in {"list", "qr-codes"}, p \in HeldOf("P1") : handleViewChange(v, p)
  \/ loadProfiles(TRUE)
  \/ fetchQRCode
  \/ \E ok \in BOOLEAN, qrCode \in QrCodesAt(now) : QrResolved(ok, qrCode)
  \/ \E ok \in BOOLEAN : copyQRData(ok)
  \/ \E ok \in BOOLEAN : downloadQRCode(ok)
  \/ Tick

SpecQr == Init /\ [][QrNext]_vars

\* C23: for every QR code the manager holds and every time t, a render at t
\* computes isExpired as false when t is before expiresAt and as true when t
\* is expiresAt or later
C23_ExpiredFromExpiresAt ==
  QrShown =>
    (isExpired(qrCodeManager.qrData, now) <=> now >= qrCodeManager.qrData.expiresAt)

\* C24: the QR code is shown for scanning, copying and downloading, and is
\* copied, only while it is active and the time has not passed its expiresAt
C24_InvalidNeverOffered ==
  /\ QrShown =>
       qrCodeManager.qrData.isActive /\ now <= qrCodeManager.qrData.expiresAt
  /\ toast = "QR data copied to clipboard!" =>
       qrCodeManager.qrData.isActive /\ now <= qrCodeManager.qrData.expiresAt
====
